---- MODULE Spec2Model ----
(***************************************************************************)
(* A model of the OpenAI Assistants MCP bridge (src/src/index.ts,          *)
(* src/src/utils/retry.ts, src/src/constants.ts).                          *)
(*                                                                         *)
(* Several state machines share this module, each with its own             *)
(* specification; the variables of the others stay at their initial        *)
(* values:                                                                 *)
(*   SpecCache  one BoundedMap driven by arbitrary set/get/has/delete/     *)
(*              clear calls;                                               *)
(*   SpecRetry  one call of withRetry around an arbitrary operation;       *)
(*   Spec       the server: specialist tool invocations over the thread    *)
(*              registry, each remote call going through the retry policy. *)
(***************************************************************************)
EXTENDS Integers, Sequences, FiniteSets, TLC

VARIABLES
    \* ---- BoundedMap harness (SpecCache)
    maxSize,        \* BoundedMap.maxSize, fixed at construction
    cache,          \* the map: entries [k, v] in the Map's iteration order
    cachePrev,      \* history: the map before the last call
    cacheOp,        \* history: the last call and what it returned
    cachePrevOp,    \* history: the call before the last one
    insOrder,       \* history: live keys, oldest insertion first
    insPrev,        \* history: insOrder before the last call
    \* ---- withRetry (SpecRetry)
    rMaxRetries,    \* options.maxRetries of the call
    rpc,            \* "call" | "sleep" | "returned" | "thrown"
    attempt,        \* the loop variable of withRetry
    outcomes,       \* history: what each call of fn did, in order
    sleeps,         \* history: number of sleeps withRetry has awaited
    rResult,        \* the value returned or the error thrown to the caller
    rOptions,       \* initialDelayMs, maxDelayMs, backoffMultiplier of the call
    lastDelay,      \* history: the failed attempt and the delay of the last sleep
    \* ---- the server (Spec)
    pollTimeoutMs,  \* config.pollTimeoutMs, read once at startup
    threadByTool,   \* BoundedMap: tool name -> thread id
    nextThreadId,   \* the remote service: the id its next new thread gets
    pc,             \* where the invocation in flight is awaiting
    toolName,       \* the invoked tool
    hadThread,      \* history: the tool had a cached thread when it was resolved
    threadId,       \* the invocation's local threadId
    httpAttempt,    \* withRetry's attempt inside the openaiFetch in flight, else 0
    iter,           \* the polling loop's i
    currentStatus,  \* the polling loop's currentStatus
    log,            \* history: the invocation's remote calls and poll sleeps
    outcome,        \* how the invocation ended
    firstThread,    \* history: per tool, the first thread created since its reset
    knownAtStart,   \* history: firstThread of the tool when it was invoked
    \* ---- the document pipeline of the server (SpecFiles)
    vectorStoreByTool,      \* BoundedMap: tool name -> vector store id
    uploadedFileIdByPath,   \* BoundedMap: absolute path -> file id
    files,          \* the files argument of the invocation
    vectorStoreId,  \* the invocation's local vectorStoreId, 0 for undefined
    tasks,          \* the upload and attach promises of the batch, one per file,
                    \* while ensureFilesInVectorStore awaits them
    swallowed,      \* history: an attach of this invocation ended in a swallowed 409
    orphans,        \* paths whose upload goes on after its invocation failed
    carried,        \* history: the paths uploaded by the last invocation that
                    \* failed in an attach, until the next batch looks them up
                    \* or reset-all clears the registries
    \* ---- concurrent invocations and the utility tools (SpecConc)
    inv,            \* per invocation in flight: where it awaits, its arguments
                    \* and its locals
    uploadedVisionFileIdByPath,     \* BoundedMap: absolute path -> file id
    made,           \* history: per tool, the threads and vector stores created
                    \* for it since its entry was last reset, and whether the
                    \* tool has not been invoked since the registries were empty
                    \* at start or by reset-all
    report,         \* what the utility tool call that has just ended returned,
                    \* with the requests it made and how its remote call ended
    health,         \* the health check in flight: withRetry's attempt, or -1
    uploadedAs,     \* history: for each file id still held by a registry or an
                    \* invocation, the path and the purpose of its upload
    \* ---- the message of an invocation (SpecMessage)
    composed,       \* the arguments of the invocation and the message content
                    \* built from them
    \* ---- the reply of a completed run (SpecReply)
    reply,          \* the text of the newest message and what the tool returns
    \* ---- the process (SpecProcess)
    env,            \* the names bound to a non-empty value in process.env
    boot,           \* "load" | "failed" | "registered" | "ready" | "exited"
    isShuttingDown, \* the module variable of that name
    closing,        \* "-" | "pending": server.close() called and not settled
    proc            \* history: signals delivered, calls of server.close() and
                    \* whether one failed, whether the transport was connected,
                    \* the exit code, the last invocation and what became of it

cacheVars == <<maxSize, cache, cachePrev, cacheOp, cachePrevOp, insOrder, insPrev>>

retryVars == <<rMaxRetries, rpc, attempt, outcomes, sleeps, rResult, rOptions, lastDelay>>

fileVars == <<vectorStoreByTool, uploadedFileIdByPath, files, vectorStoreId, tasks,
              swallowed, orphans, carried>>

serverVars == <<pollTimeoutMs, threadByTool, nextThreadId, pc, toolName, hadThread,
                threadId, httpAttempt, iter, currentStatus, log, outcome, firstThread,
                knownAtStart, fileVars>>

concVars == <<inv, uploadedVisionFileIdByPath, made, report, health, uploadedAs>>

msgVars == <<composed>>

replyVars == <<reply>>

procVars == <<env, boot, isShuttingDown, closing, proc>>

auxVars == <<concVars, msgVars, replyVars, procVars>>

vars == <<cacheVars, retryVars, serverVars, auxVars>>

-----------------------------------------------------------------------------
(* Bounds of the model *)

\* largest capacity a BoundedMap of the harness is constructed with
MaxCapacity == 2

\* largest options.maxRetries a withRetry call of SpecRetry is given
MaxRetriesOpt == 3

\* largest polling budget (iterations) the server is configured with
MaxPollBudget == 3

\* number of threads the remote service creates in one run of the model
MaxThreads == 2

\* Math.random() returns one of 0/RandomSteps .. (RandomSteps - 1)/RandomSteps
RandomSteps == 4

(* Small value sets *)
Keys == {"k1", "k2", "k3"}
Vals == {"v1", "v2"}

\* what Map.prototype.get returns for an absent key
Undefined == "undefined"

-----------------------------------------------------------------------------
(* The built-in Map that BoundedMap extends: entries are kept in insertion *)
(* order; set of a present key keeps its place, delete removes the entry,  *)
(* a later set of that key appends it.                                     *)

Range(s) == {s[j] : j \in 1..Len(s)}

MapKeys(m) == [j \in 1..Len(m) |-> m[j].k]

MapHas(m, key) == \E j \in 1..Len(m) : m[j].k = key

MapGet(m, key) ==
    IF MapHas(m, key)
    THEN (CHOOSE e \in Range(m) : e.k = key).v
    ELSE Undefined

MapDelete(m, key) == SelectSeq(m, LAMBDA e : e.k # key)

MapSuperSet(m, key, value) ==
    IF MapHas(m, key)
    THEN [j \in 1..Len(m) |-> IF m[j].k = key THEN [k |-> key, v |-> value] ELSE m[j]]
    ELSE Append(m, [k |-> key, v |-> value])

\* mutant of BoundedMapSet: evicts the newest entry instead of the oldest
BoundedMapSet_EvictNewest(m, cap, key, value) ==
    LET evicted == IF Len(m) >= cap /\ ~MapHas(m, key) /\ Len(m) > 0
                   THEN MapDelete(m, m[Len(m)].k)
                   ELSE m
    IN  MapSuperSet(evicted, key, value)

\* mutant of BoundedMapSet: evicts at capacity also when the key is present
BoundedMapSet_EvictOnOverwrite(m, cap, key, value) ==
    LET evicted == IF Len(m) >= cap /\ Len(m) > 0
                   THEN MapDelete(m, m[1].k)
                   ELSE m
    IN  MapSuperSet(evicted, key, value)

\* mutant of BoundedMapSet: evicts only once the map is over capacity
BoundedMapSet_OffByOne(m, cap, key, value) ==
    LET evicted == IF Len(m) > cap /\ ~MapHas(m, key) /\ Len(m) > 0
                   THEN MapDelete(m, m[1].k)
                   ELSE m
    IN  MapSuperSet(evicted, key, value)

\* BoundedMap.set: at capacity and the key new, delete the first key of the
\* iteration order (when there is one), then Map.set
BoundedMapSet(m, cap, key, value) ==
    LET oldestKey == IF Len(m) > 0 THEN m[1].k ELSE Undefined
        evicted == IF Len(m) >= cap /\ ~MapHas(m, key)
                   THEN (IF oldestKey # Undefined THEN MapDelete(m, oldestKey) ELSE m)
                   ELSE m
    IN  MapSuperSet(evicted, key, value)

-----------------------------------------------------------------------------
(* Errors and the retry policy (src/src/utils/retry.ts) *)

\* HTTP_STATUS of constants.ts
BAD_REQUEST == 400
UNAUTHORIZED == 401
FORBIDDEN == 403
NOT_FOUND == 404
CONFLICT == 409
TOO_MANY_REQUESTS == 429
INTERNAL_SERVER_ERROR == 500
SERVICE_UNAVAILABLE == 503

RETRYABLE_STATUS_CODES == {TOO_MANY_REQUESTS, INTERNAL_SERVER_ERROR, SERVICE_UNAVAILABLE}

\* new HttpError(message, statusCode, responseBody)
HttpError(status) == [type |-> "HttpError", statusCode |-> status, fetchMsg |-> FALSE]

\* the TypeError fetch() rejects with on a transport failure ("fetch failed")
NetworkError == [type |-> "TypeError", statusCode |-> 0, fetchMsg |-> TRUE]

\* any other TypeError (its message does not contain "fetch")
OtherTypeError == [type |-> "TypeError", statusCode |-> 0, fetchMsg |-> FALSE]

\* any other error, such as the SyntaxError of response.json() on a bad body
PlainError == [type |-> "Error", statusCode |-> 0, fetchMsg |-> FALSE]

NoError == [type |-> "none", statusCode |-> 0, fetchMsg |-> FALSE]

\* the errors an operation wrapped by withRetry fails with in the model
Errors ==
    {HttpError(st) : st \in {BAD_REQUEST, NOT_FOUND, TOO_MANY_REQUESTS,
                             INTERNAL_SERVER_ERROR, SERVICE_UNAVAILABLE}}
        \cup {NetworkError, OtherTypeError, PlainError}

\* the errors the operation of SpecRetry fails with: those, and HTTP errors
\* with three more statuses the default classifier does not retry
AnyErrors ==
    Errors \cup {HttpError(st) : st \in {UNAUTHORIZED, CONFLICT, 502}}

\* mutant of defaultIsRetryable: retries every TypeError and every 5xx
defaultIsRetryable_Lenient(error) ==
    IF error.type = "TypeError" THEN TRUE
    ELSE IF error.type = "HttpError"
    THEN error.statusCode \in RETRYABLE_STATUS_CODES \/ error.statusCode >= 500
    ELSE FALSE

defaultIsRetryable(error) ==
    IF error.type = "TypeError" /\ error.fetchMsg THEN TRUE
    ELSE IF error.type = "HttpError" THEN error.statusCode \in RETRYABLE_STATUS_CODES
    ELSE FALSE

\* mutant of WithRetryGivesUp: gives up one attempt early
WithRetryGivesUp_OneEarly(att, maxRetries, error) ==
    att + 1 >= maxRetries \/ ~defaultIsRetryable(error)

\* mutant of WithRetryGivesUp: the number of attempts is not tested
WithRetryGivesUp_NoLimit(att, maxRetries, error) == ~defaultIsRetryable(error)

\* mutant of WithRetryGivesUp: retries whatever the error is
WithRetryGivesUp_RetryAll(att, maxRetries, error) == att >= maxRetries

\* withRetry's catch block: rethrow when the attempts are used up or the
\* error is not retryable
WithRetryGivesUp(att, maxRetries, error) ==
    att >= maxRetries \/ ~defaultIsRetryable(error)

\* the options of withRetry other than maxRetries; the first is the defaults
DefaultRetryOptions ==
    [initialDelayMs |-> 1000, maxDelayMs |-> 30000, backoffMultiplier |-> 2]

RetryOptions ==
    {DefaultRetryOptions,
     [initialDelayMs |-> 10, maxDelayMs |-> 25, backoffMultiplier |-> 2],
     [initialDelayMs |-> 100, maxDelayMs |-> 100, backoffMultiplier |-> 3],
     [initialDelayMs |-> 7, maxDelayMs |-> 50, backoffMultiplier |-> 1]}

\* Math.pow(b, n) for a natural n
RECURSIVE Pow(_, _)
Pow(b, n) == IF n = 0 THEN 1 ELSE b * Pow(b, n - 1)

Min(a, b) == IF a < b THEN a ELSE b

\* mutant of calculateDelay: the delay is not capped
calculateDelay_NoCap(att, initialDelayMs, maxDelayMs, backoffMultiplier, random) ==
    LET exponentialDelay == initialDelayMs * Pow(backoffMultiplier, att)
    IN  (exponentialDelay * 4 * RandomSteps + exponentialDelay * random)
            \div (4 * RandomSteps)

\* calculateDelay, Math.random() having returned random / RandomSteps:
\* Math.floor(cappedDelay + cappedDelay * Math.random() * 0.25)
calculateDelay(att, initialDelayMs, maxDelayMs, backoffMultiplier, random) ==
    LET exponentialDelay == initialDelayMs * Pow(backoffMultiplier, att)
        cappedDelay == Min(exponentialDelay, maxDelayMs)
    IN  (cappedDelay * 4 * RandomSteps + cappedDelay * random) \div (4 * RandomSteps)

-----------------------------------------------------------------------------
(* Constants of the server (src/src/constants.ts) *)

\* RUN_STATUS
RunStatuses ==
    {"queued", "in_progress", "requires_action", "cancelling", "cancelled",
     "failed", "completed", "incomplete", "expired"}

COMPLETED == "completed"

TERMINAL_RUN_STATUSES == {"completed", "failed", "cancelled", "expired", "incomplete"}

FAILED_RUN_STATUSES == {"failed", "cancelled", "expired"}

\* DEFAULTS
POLL_INTERVAL_MS == 500
MAX_RETRIES == 3
MAX_CACHE_SIZE == 100

\* TOOL_NAMES: two of the six specialist tools
Tools == {"ux_consultant_review", "ui_critique"}

-----------------------------------------------------------------------------
(* The state of a machine that a specification does not run *)

BoolStr(b) == IF b THEN "true" ELSE "false"

NoOp == [op |-> "none", k |-> Undefined, v |-> Undefined, ret |-> Undefined]

Success(value) == [ok |-> TRUE, val |-> value, err |-> NoError]
Failure(error) == [ok |-> FALSE, val |-> Undefined, err |-> error]

NoResult == [ok |-> FALSE, val |-> Undefined, err |-> NoError]

\* mutant of Thrown: the error is wrapped in a new Error
Thrown_Wrapped(error) == Failure(PlainError)

\* withRetry's catch block: throw error
Thrown(error) == Failure(error)

NoDelay == [n |-> -1, random |-> 0, delay |-> 0]

\* the BoundedMap harness is not in use
CacheIdle ==
    /\ maxSize = 1
    /\ cache = <<>>
    /\ cachePrev = <<>>
    /\ cacheOp = NoOp
    /\ cachePrevOp = NoOp
    /\ insOrder = <<>>
    /\ insPrev = <<>>

\* the retry machine is not in use
RetryIdle ==
    /\ rMaxRetries = 0
    /\ rpc = "idle"
    /\ attempt = 0
    /\ outcomes = <<>>
    /\ sleeps = 0
    /\ rResult = NoResult
    /\ rOptions = DefaultRetryOptions
    /\ lastDelay = NoDelay

\* no document has been handled
FilesIdle ==
    /\ vectorStoreByTool = <<>>
    /\ uploadedFileIdByPath = <<>>
    /\ files = <<>>
    /\ vectorStoreId = 0
    /\ tasks = <<>>
    /\ swallowed = FALSE
    /\ orphans = {}
    /\ carried = [tool |-> "-", paths |-> {}, ids |-> {}]

\* the invocations that can be in flight together
Invocations == {1, 2}

\* an invocation slot before its first use
NoInvocation ==
    [pc |-> "idle", tool |-> "-", reset_thread |-> FALSE, reset_files |-> FALSE,
     files |-> <<>>, image_files |-> <<>>, threadId |-> 0, vectorStoreId |-> 0,
     fileId |-> 0, imageFileId |-> 0, prevThread |-> 0, prevStore |-> 0,
     runStores |-> <<>>, crossed |-> FALSE, uploaded |-> FALSE, result |-> "-"]

NoMade == [threads |-> {}, stores |-> {}, fresh |-> TRUE]

NoReport == [tool |-> "-", status |-> "-", counts |-> <<>>, call |-> "-"]

\* no concurrent invocation and no utility tool has run
ConcIdle ==
    /\ inv = [i \in Invocations |-> NoInvocation]
    /\ uploadedVisionFileIdByPath = <<>>
    /\ made = [tool \in Tools |-> NoMade]
    /\ report = NoReport
    /\ health = -1
    /\ uploadedAs = {}

NoComposed == [pc |-> "-"]

NoReply == [pc |-> "-"]

NoProc == [signals |-> 0, closes |-> 0, closeFailed |-> FALSE, connected |-> FALSE,
           exitCode |-> -1, invoked |-> "-", served |-> "-"]

MsgIdle == composed = NoComposed

ReplyIdle == reply = NoReply

ProcIdle ==
    /\ env = {}
    /\ boot = "-"
    /\ isShuttingDown = FALSE
    /\ closing = "-"
    /\ proc = NoProc

AuxIdle == ConcIdle /\ MsgIdle /\ ReplyIdle /\ ProcIdle

NoOutcome == [kind |-> "none", status |-> "-", details |-> "-", err |-> NoError]

\* the server is not in use
ServerIdle ==
    /\ pollTimeoutMs = 0
    /\ threadByTool = <<>>
    /\ nextThreadId = 1
    /\ pc = "off"
    /\ toolName = "-"
    /\ hadThread = FALSE
    /\ threadId = 0
    /\ httpAttempt = 0
    /\ iter = 0
    /\ currentStatus = "-"
    /\ log = <<>>
    /\ outcome = NoOutcome
    /\ firstThread = [tool \in Tools |-> 0]
    /\ knownAtStart = 0
    /\ FilesIdle

-----------------------------------------------------------------------------
(* SpecRetry: one call withRetry(fn, {maxRetries}) *)

RetryInit ==
    /\ rMaxRetries \in 0..MaxRetriesOpt
    /\ rpc = "call"
    /\ attempt = 0
    /\ outcomes = <<>>
    /\ sleeps = 0
    /\ rResult = NoResult
    /\ rOptions \in RetryOptions
    /\ lastDelay = NoDelay
    /\ CacheIdle
    /\ ServerIdle
    /\ AuxIdle

\* return await fn()
RetryFnReturns ==
    /\ rpc = "call"
    /\ \E value \in Vals :
        /\ outcomes' = Append(outcomes, Success(value))
        /\ rResult' = Success(value)
    /\ rpc' = "returned"
    /\ UNCHANGED <<rMaxRetries, attempt, sleeps, rOptions, lastDelay, cacheVars, auxVars, serverVars>>

\* fn() rejects and the catch block rethrows
RetryFnThrowsFinal ==
    /\ rpc = "call"
    /\ \E error \in AnyErrors :
        /\ WithRetryGivesUp(attempt, rMaxRetries, error)
        /\ outcomes' = Append(outcomes, Failure(error))
        /\ rResult' = Thrown(error)
    /\ rpc' = "thrown"
    /\ UNCHANGED <<rMaxRetries, attempt, sleeps, rOptions, lastDelay, cacheVars, auxVars, serverVars>>

\* fn() rejects and the catch block goes on to await sleep(delay), the delay
\* being calculateDelay(attempt, ...)
RetryFnThrowsRetryable ==
    /\ rpc = "call"
    /\ \E error \in AnyErrors :
        /\ ~WithRetryGivesUp(attempt, rMaxRetries, error)
        /\ outcomes' = Append(outcomes, Failure(error))
    /\ \E random \in 0..(RandomSteps - 1) :
        lastDelay' = [n |-> attempt, random |-> random,
                      delay |-> calculateDelay(attempt, rOptions.initialDelayMs,
                                               rOptions.maxDelayMs,
                                               rOptions.backoffMultiplier, random)]
    /\ rpc' = "sleep"
    /\ UNCHANGED <<rMaxRetries, attempt, sleeps, rResult, rOptions, cacheVars, auxVars, serverVars>>

\* the sleep ends; attempt++ and, the loop condition holding, the next call
RetrySleepDone ==
    /\ rpc = "sleep"
    /\ sleeps' = sleeps + 1
    /\ attempt' = attempt + 1
    /\ rpc' = IF attempt + 1 <= rMaxRetries THEN "call" ELSE "thrown"
    /\ rResult' = IF attempt + 1 <= rMaxRetries THEN rResult
                  ELSE outcomes[Len(outcomes)]
    /\ UNCHANGED <<rMaxRetries, outcomes, rOptions, lastDelay, cacheVars, auxVars, serverVars>>

RetryNext ==
    RetryFnReturns \/ RetryFnThrowsFinal \/ RetryFnThrowsRetryable \/ RetrySleepDone

SpecRetry == RetryInit /\ [][RetryNext]_vars

-----------------------------------------------------------------------------
(* SpecCache: one BoundedMap under arbitrary calls *)

\* the harness's own record of insertion order: keys that left the map are
\* dropped, a key that entered it is appended
TrackInsertion(order, before, after, key) ==
    LET live == SelectSeq(order, LAMBDA x : MapHas(after, x))
    IN  IF MapHas(after, key) /\ ~MapHas(before, key) THEN Append(live, key) ELSE live

CacheInit ==
    /\ maxSize \in 1..MaxCapacity
    /\ cache = <<>>
    /\ cachePrev = <<>>
    /\ cacheOp = NoOp
    /\ cachePrevOp = NoOp
    /\ insOrder = <<>>
    /\ insPrev = <<>>
    /\ RetryIdle
    /\ ServerIdle
    /\ AuxIdle

CacheCall(op, key, value, after, ret) ==
    /\ cache' = after
    /\ cachePrev' = cache
    /\ cacheOp' = [op |-> op, k |-> key, v |-> value, ret |-> ret]
    /\ cachePrevOp' = cacheOp
    /\ insOrder' = TrackInsertion(insOrder, cache, after, key)
    /\ insPrev' = insOrder
    /\ UNCHANGED <<maxSize, retryVars, serverVars, auxVars>>

CacheSet ==
    \E key \in Keys, value \in Vals :
        CacheCall("set", key, value, BoundedMapSet(cache, maxSize, key, value), Undefined)

CacheGet ==
    \E key \in Keys : CacheCall("get", key, Undefined, cache, MapGet(cache, key))

CacheHas ==
    \E key \in Keys : CacheCall("has", key, Undefined, cache, BoolStr(MapHas(cache, key)))

CacheDelete ==
    \E key \in Keys :
        CacheCall("delete", key, Undefined, MapDelete(cache, key), BoolStr(MapHas(cache, key)))

CacheClear == CacheCall("clear", Undefined, Undefined, <<>>, Undefined)

CacheNext == CacheSet \/ CacheGet \/ CacheHas \/ CacheDelete \/ CacheClear

SpecCache == CacheInit /\ [][CacheNext]_vars

-----------------------------------------------------------------------------
(* File paths.  A path string is the sequence of its characters; "/" is the *)
(* separator (POSIX).                                                        *)

\* process.cwd(): "/w/p"
workingDirectory == <<"/", "w", "/", "p">>

\* the paths callers supply: "a", "./a" (the same file spelled differently),
\* "../x" (outside the working directory) and "../pq/a" (in a sibling
\* directory whose name begins with the working directory's name)
PathA == <<"a">>
PathDotA == <<".", "/", "a">>
PathOutside == <<".", ".", "/", "x">>
PathSibling == <<".", ".", "/", "p", "q", "/", "a">>

\* the segments of a path string: the runs of characters between separators
RECURSIVE Segments(_, _, _)
Segments(str, cur, acc) ==
    IF str = <<>> THEN (IF cur = <<>> THEN acc ELSE Append(acc, cur))
    ELSE IF Head(str) = "/"
    THEN Segments(Tail(str), <<>>, IF cur = <<>> THEN acc ELSE Append(acc, cur))
    ELSE Segments(Tail(str), Append(cur, Head(str)), acc)

\* path normalisation: "." is dropped, ".." removes the segment before it
RECURSIVE Normalize(_, _)
Normalize(segs, acc) ==
    IF segs = <<>> THEN acc
    ELSE IF Head(segs) = <<".">> THEN Normalize(Tail(segs), acc)
    ELSE IF Head(segs) = <<".", ".">>
    THEN Normalize(Tail(segs), IF acc = <<>> THEN acc ELSE SubSeq(acc, 1, Len(acc) - 1))
    ELSE Normalize(Tail(segs), Append(acc, Head(segs)))

\* the absolute path string of a sequence of segments
RECURSIVE JoinSegments(_)
JoinSegments(segs) ==
    IF segs = <<>> THEN <<>>
    ELSE <<"/">> \o Head(segs) \o JoinSegments(Tail(segs))

\* path.resolve(filePath): relative paths are taken from the working
\* directory; the result is absolute and normalised
PathResolve(filePath) ==
    LET absolute == filePath # <<>> /\ Head(filePath) = "/"
        from == IF absolute THEN <<>> ELSE Segments(workingDirectory, <<>>, <<>>)
        segs == Normalize(from \o Segments(filePath, <<>>, <<>>), <<>>)
    IN  IF segs = <<>> THEN <<"/">> ELSE JoinSegments(segs)

\* String.prototype.startsWith
StartsWith(str, prefix) ==
    Len(prefix) <= Len(str) /\ SubSeq(str, 1, Len(prefix)) = prefix

\* validateFilePath does not throw:
\* absolutePath.startsWith(workingDirectory)
ValidPath(filePath) == StartsWith(PathResolve(filePath), workingDirectory)

-----------------------------------------------------------------------------
(* Spec and SpecFiles: the server.  One specialist invocation is in flight  *)
(* at a time; it carries a prompt and, in SpecFiles, document files (no      *)
(* images).  Each step is one resumption of the handler: from the settling   *)
(* of a promise it awaits to its next await.  reset_all_specialists is a     *)
(* synchronous handler and may run between any two steps.  The uploads       *)
(* started by an invocation that has failed go on in the background.         *)

\* the values OPENAI_POLL_TIMEOUT_MS takes in the model (optionalEnvNumber
\* keeps whatever parseInt returns): a negative one, 0, and for each budget k
\* a timeout that needs k iterations (a multiple of the interval for even k,
\* 100 ms short of one for odd k)
PollTimeouts ==
    {-600, 0} \cup {k * POLL_INTERVAL_MS - 100 * (k % 2) : k \in 1..MaxPollBudget}

\* Math.ceil(a / b) for b > 0
Ceil(a, b) == -((-a) \div b)

\* mutant of MaxIterations: rounds down
MaxIterations_Floor == pollTimeoutMs \div POLL_INTERVAL_MS

\* const maxIterations = Math.ceil(config.pollTimeoutMs / config.pollIntervalMs)
MaxIterations == Ceil(pollTimeoutMs, POLL_INTERVAL_MS)

\* runStatus.last_error: null, or an error object
Null == "null"
LastErrors == {Null, "{code,message}"}

\* the remote service reports a last_error only on a run that ended in failure
RemoteLastErrors(status) ==
    IF status \in {"failed", "cancelled", "expired"} THEN LastErrors ELSE {Null}

\* an entry of the log: a remote call that resolved (ok) or rejected, or a
\* poll sleep; a status fetch carries the status and last_error it returned,
\* a message listing the name of the list it returned
Ev(name, ok, status, lastError) ==
    [ev |-> name, ok |-> ok, status |-> status, lastError |-> lastError]

\* Error(`Run ended with status: ${currentStatus}. ${errorDetails}`)
RunFailedError(status, lastError) ==
    [kind |-> "run_failed", status |-> status,
     details |-> IF lastError # Null THEN lastError ELSE "No error details",
     err |-> NoError]

\* Error(`Run timed out after ...ms (last status: ${currentStatus})`)
TimeoutError(status) ==
    [kind |-> "timeout", status |-> status, details |-> "-", err |-> NoError]

\* the HttpError or other error an openaiFetch call rejects with
RemoteCallError(error) ==
    [kind |-> "remote_error", status |-> "-", details |-> "-", err |-> error]

\* Error("No text response found from assistant")
NoTextError == [kind |-> "no_text", status |-> "-", details |-> "-", err |-> NoError]

\* the error the catch block around addFileToVectorStore rethrows: the error
\* of the attach request itself
AttachRethrown(error) ==
    [kind |-> "attach_error", status |-> "-", details |-> "-", err |-> error]

\* Error(`File path "..." is outside the allowed directory. ...`)
ValidationError ==
    [kind |-> "validation_error", status |-> "-", details |-> "-", err |-> NoError]

\* the error readFile rejects with (no such file, no permission)
ReadError == [kind |-> "read_error", status |-> "-", details |-> "-", err |-> NoError]

Returned == [kind |-> "returned", status |-> "-", details |-> "-", err |-> NoError]

\* the state of the server when it starts serving
ServerStart ==
    /\ threadByTool = <<>>
    /\ nextThreadId = 1
    /\ pc = "idle"
    /\ toolName = "-"
    /\ hadThread = FALSE
    /\ threadId = 0
    /\ httpAttempt = 0
    /\ iter = 0
    /\ currentStatus = "-"
    /\ log = <<>>
    /\ outcome = NoOutcome
    /\ firstThread = [tool \in Tools |-> 0]
    /\ knownAtStart = 0
    /\ FilesIdle
    /\ CacheIdle
    /\ RetryIdle
    /\ AuxIdle

ServerInit == pollTimeoutMs \in PollTimeouts /\ ServerStart

\* SpecFiles runs with OPENAI_POLL_TIMEOUT_MS=0: the status of the run is the
\* one its creation reports
FilesInit == pollTimeoutMs = 0 /\ ServerStart

\* mutant of ExistingThread: the thread registry is never consulted
ExistingThread_Never(registry, tool) == FALSE

\* getOrCreateThreadId: const existing = threadByTool.get(toolName); if (existing)
ExistingThread(registry, tool) == MapHas(registry, tool)

\* vectorStoreByTool.get(toolName), 0 standing for undefined
StoreOf(registry, tool) == IF MapHas(registry, tool) THEN MapGet(registry, tool) ELSE 0

\* mutant of UploadLookup: the upload cache is never consulted
UploadLookup_NoCache(registry, absolutePath) == 0

\* uploadedFileIdByPath.get(absolutePath), 0 standing for undefined
UploadLookup(registry, absolutePath) ==
    IF MapHas(registry, absolutePath) THEN MapGet(registry, absolutePath) ELSE 0

\* mutant of UploadMapEntry: no path is validated
UploadMapEntry_NoValidation(filePath, registry) ==
    LET absolutePath == PathResolve(filePath)
        fileId == UploadLookup(registry, absolutePath)
    IN  IF fileId # 0
        THEN [abs |-> absolutePath, up |-> "cached", id |-> fileId]
        ELSE [abs |-> absolutePath, up |-> "reading", id |-> 0]

\* the callback of filePaths.map in ensureFilesInVectorStore up to its first
\* await: validateFilePath throws (the promise is rejected), or the path is
\* cached (the promise resolves), or uploadFileForAssistants is entered,
\* which validates the absolute path again and starts readFile
UploadMapEntry(filePath, registry) ==
    LET absolutePath == PathResolve(filePath)
        fileId == UploadLookup(registry, absolutePath)
    IN  IF ~ValidPath(filePath)
        THEN [abs |-> absolutePath, up |-> "rejected", id |-> 0]
        ELSE IF fileId # 0
        THEN [abs |-> absolutePath, up |-> "cached", id |-> fileId]
        ELSE IF ~ValidPath(absolutePath)
        THEN [abs |-> absolutePath, up |-> "rejected", id |-> 0]
        ELSE [abs |-> absolutePath, up |-> "reading", id |-> 0]

\* the promise of one file of the batch; known is history: the tool whose
\* invocation uploaded this path and then failed in an attach, or "-"
NewTask(filePath) ==
    LET entry == UploadMapEntry(filePath, uploadedFileIdByPath)
    IN  [abs |-> entry.abs, up |-> entry.up, id |-> entry.id, at |-> "none",
         attempt |-> 0,
         known |-> IF entry.abs \in carried.paths THEN carried.tool ELSE "-"]

\* the uploads of these promises that are still in flight, but for one
InFlightUploads(ts, except) ==
    {ts[j].abs : j \in {h \in DOMAIN ts : h # except /\ ts[h].up \in {"reading", "uploading"}}}

\* uploadedFiles.map(...): one attach request per file of the batch
AttachMap(ts) ==
    [j \in DOMAIN ts |-> [ts[j] EXCEPT !.at = "attaching", !.attempt = 0]]

\* history: the tool of the last invocation that failed in an attach, and the
\* paths and file ids it had uploaded
NoCarried == [tool |-> "-", paths |-> {}, ids |-> {}]

\* history: reset-all cleared the registries while the batch of the current
\* invocation was being uploaded or attached
WipedCarried == [tool |-> "reset-all", paths |-> {}, ids |-> {}]

\* the promises of a batch that made an upload of their own
UploadedBy(ts) == {h \in DOMAIN ts : ts[h].up = "uploaded"}

\* the identifier the remote service gives a new object: one that the
\* program holds nowhere (the least such number)
FreshId(used) ==
    CHOOSE n \in 1..(Cardinality(used) + 1) :
        n \notin used /\ \A m \in 1..(n - 1) : m \in used

\* the file ids the program holds or has held in the invocation that failed
FileIdsHeld ==
    {uploadedFileIdByPath[j].v : j \in 1..Len(uploadedFileIdByPath)}
        \cup {tasks[j].id : j \in 1..Len(tasks)} \cup carried.ids

\* the vector store ids the program holds
StoreIdsHeld ==
    {vectorStoreByTool[j].v : j \in 1..Len(vectorStoreByTool)} \cup {vectorStoreId}

\* ensureFilesInVectorStore once the vector store id is known: the upload
\* map, then await Promise.all(uploadPromises), which rejects at once when a
\* path was rejected (the uploads started for the other files go on in the
\* background), and, when every file is cached, the attach map
StartUploads(batch) ==
    LET ts == [i \in 1..Len(batch) |-> NewTask(batch[i])]
    IN  /\ carried' = NoCarried
        /\ IF \E i \in DOMAIN ts : ts[i].up = "rejected"
           THEN /\ tasks' = <<>>
                /\ pc' = "done"
                /\ outcome' = ValidationError
                /\ orphans' = orphans \cup InFlightUploads(ts, 0)
           ELSE /\ tasks' = IF \A i \in DOMAIN ts : ts[i].up = "cached"
                            THEN AttachMap(ts) ELSE ts
                /\ pc' = IF \A i \in DOMAIN ts : ts[i].up = "cached"
                         THEN "attaches" ELSE "uploads"
                /\ outcome' = NoOutcome
                /\ orphans' = orphans

\* the handler once the thread id is known: with files,
\* ensureFilesInVectorStore up to its first await; without, the cached
\* vector store id and runAssistantOnThread up to the message post
AfterThread(stores, tool, batch) ==
    IF batch = <<>>
    THEN /\ vectorStoreId' = StoreOf(stores, tool)
         /\ pc' = "post_message"
         /\ outcome' = NoOutcome
         /\ tasks' = <<>>
         /\ UNCHANGED <<orphans, carried>>
    ELSE IF MapHas(stores, tool)
    THEN /\ vectorStoreId' = MapGet(stores, tool)
         /\ StartUploads(batch)
    ELSE /\ vectorStoreId' = 0
         /\ pc' = "create_vector_store"
         /\ outcome' = NoOutcome
         /\ tasks' = <<>>
         /\ UNCHANGED <<orphans, carried>>

\* the handler of a specialist tool, up to its first await: the reset flags,
\* then getOrCreateThreadId up to its openaiFetch, or, with a cached thread,
\* on into the rest of the handler
InvokeAs(tool, reset_thread, reset_files, batch) ==
    /\ pc \in {"idle", "done"}
    /\ LET registry == IF reset_thread THEN MapDelete(threadByTool, tool)
                       ELSE threadByTool
           stores == IF reset_files THEN MapDelete(vectorStoreByTool, tool)
                     ELSE vectorStoreByTool
           existing == ExistingThread(registry, tool)
           first == IF reset_thread THEN [firstThread EXCEPT ![tool] = 0]
                    ELSE firstThread
       IN  /\ existing \/ nextThreadId <= MaxThreads
           /\ threadByTool' = registry
           /\ vectorStoreByTool' = stores
           /\ toolName' = tool
           /\ files' = batch
           /\ hadThread' = MapHas(registry, tool)
           /\ threadId' = IF existing THEN MapGet(registry, tool) ELSE 0
           /\ firstThread' = first
           /\ knownAtStart' = first[tool]
           /\ IF existing
              THEN AfterThread(stores, tool, batch)
              ELSE /\ pc' = "create_thread"
                   /\ outcome' = NoOutcome
                   /\ vectorStoreId' = 0
                   /\ tasks' = <<>>
                   /\ UNCHANGED <<orphans, carried>>
    /\ httpAttempt' = 0
    /\ iter' = 0
    /\ currentStatus' = "-"
    /\ log' = <<>>
    /\ swallowed' = FALSE
    /\ UNCHANGED <<pollTimeoutMs, nextThreadId, uploadedFileIdByPath, cacheVars, auxVars,
                   retryVars>>

\* a specialist tool is invoked with a prompt only
Invoke ==
    \E tool \in Tools, reset_thread \in BOOLEAN :
        InvokeAs(tool, reset_thread, FALSE, <<>>)

\* the files arguments of the model; <<>> is an invocation without files
FileBatches ==
    {<<>>, <<PathA>>, <<PathA, PathDotA>>, <<PathA, PathOutside>>, <<PathSibling>>}

\* the tool that SpecFiles invokes
FileTools == {"ux_consultant_review"}

\* a specialist tool is invoked with a prompt and files
InvokeWithFiles ==
    \E tool \in FileTools, reset_thread \in BOOLEAN, reset_files \in BOOLEAN,
       batch \in FileBatches :
        InvokeAs(tool, reset_thread, reset_files, batch)

\* the errors a call of the remote service fails with in the model: an HTTP
\* error that is not retried, one that is, a transport failure, and an error
\* of another type
CallErrors ==
    {HttpError(NOT_FOUND), HttpError(SERVICE_UNAVAILABLE), NetworkError, PlainError}

\* an openaiFetch call of the handler itself is in flight
InCall ==
    pc \in {"create_thread", "create_vector_store", "post_message", "create_run",
            "fetch_status", "list_messages"}

\* openaiFetch: an attempt fails, withRetry sleeps and tries again
HttpRetry ==
    /\ InCall
    /\ \E error \in CallErrors : ~WithRetryGivesUp(httpAttempt, MAX_RETRIES, error)
    /\ httpAttempt' = httpAttempt + 1
    /\ UNCHANGED <<pollTimeoutMs, threadByTool, nextThreadId, pc, toolName, hadThread,
                   threadId, iter, currentStatus, log, outcome, firstThread,
                   knownAtStart, fileVars, cacheVars, auxVars, retryVars>>

\* openaiFetch: an attempt fails and withRetry rethrows; nothing in the
\* handler catches it, the invocation fails
HttpFail ==
    /\ InCall
    /\ \E error \in CallErrors :
        /\ WithRetryGivesUp(httpAttempt, MAX_RETRIES, error)
        /\ outcome' = RemoteCallError(error)
    /\ log' = Append(log, Ev(pc, FALSE, "-", "-"))
    /\ pc' = "done"
    /\ httpAttempt' = 0
    /\ UNCHANGED <<pollTimeoutMs, threadByTool, nextThreadId, toolName, hadThread,
                   threadId, iter, currentStatus, firstThread,
                   knownAtStart, fileVars, cacheVars, auxVars, retryVars>>

\* getOrCreateThreadId after POST /threads: cache the new thread; then the
\* rest of the handler up to its next await
CreateThreadOk ==
    /\ pc = "create_thread"
    /\ nextThreadId <= MaxThreads
    /\ threadByTool' = BoundedMapSet(threadByTool, MAX_CACHE_SIZE, toolName, nextThreadId)
    /\ threadId' = nextThreadId
    /\ nextThreadId' = nextThreadId + 1
    /\ firstThread' = IF firstThread[toolName] = 0
                      THEN [firstThread EXCEPT ![toolName] = nextThreadId]
                      ELSE firstThread
    /\ log' = Append(log, Ev(pc, TRUE, "-", "-"))
    /\ AfterThread(vectorStoreByTool, toolName, files)
    /\ httpAttempt' = 0
    /\ UNCHANGED <<pollTimeoutMs, toolName, hadThread, iter, currentStatus, knownAtStart,
                   vectorStoreByTool, uploadedFileIdByPath, files, swallowed, cacheVars, auxVars,
                   retryVars>>

\* getOrCreateVectorStoreId after POST /vector_stores: cache the new vector
\* store; then ensureFilesInVectorStore up to its next await
CreateVectorStoreOk ==
    /\ pc = "create_vector_store"
    /\ vectorStoreByTool' =
          BoundedMapSet(vectorStoreByTool, MAX_CACHE_SIZE, toolName, FreshId(StoreIdsHeld))
    /\ vectorStoreId' = FreshId(StoreIdsHeld)
    /\ log' = Append(log, Ev(pc, TRUE, "-", "-"))
    /\ StartUploads(files)
    /\ httpAttempt' = 0
    /\ UNCHANGED <<pollTimeoutMs, threadByTool, nextThreadId, toolName, hadThread,
                   threadId, iter, currentStatus, firstThread, knownAtStart,
                   uploadedFileIdByPath, files, swallowed, cacheVars, auxVars, retryVars>>

\* what no step of the upload and attach promises changes
PipelineFrame ==
    UNCHANGED <<pollTimeoutMs, threadByTool, nextThreadId, toolName, hadThread, threadId,
                httpAttempt, iter, currentStatus, log, firstThread, knownAtStart,
                vectorStoreByTool, files, vectorStoreId, cacheVars, auxVars, retryVars>>

\* a promise of the batch is rejected: Promise.all rejects and the invocation
\* fails; the other uploads in flight go on in the background
PipelineFails(i, error) ==
    /\ tasks' = <<>>
    /\ pc' = "done"
    /\ outcome' = error
    /\ orphans' = orphans \cup InFlightUploads(tasks, i)

\* readFile resolves: POST /files is issued
ReadOk ==
    /\ pc = "uploads"
    /\ \E i \in DOMAIN tasks :
        /\ tasks[i].up = "reading"
        /\ tasks' = [tasks EXCEPT ![i].up = "uploading"]
    /\ UNCHANGED <<pc, outcome, swallowed, orphans, carried, uploadedFileIdByPath>>
    /\ PipelineFrame

\* readFile rejects
ReadFail ==
    /\ pc = "uploads"
    /\ \E i \in DOMAIN tasks :
        /\ tasks[i].up = "reading"
        /\ PipelineFails(i, ReadError)
    /\ UNCHANGED <<swallowed, carried, uploadedFileIdByPath>>
    /\ PipelineFrame

\* POST /files: an attempt fails, withRetry sleeps and tries again
UploadRetry ==
    /\ pc = "uploads"
    /\ \E i \in DOMAIN tasks :
        /\ tasks[i].up = "uploading"
        /\ \E error \in CallErrors :
              ~WithRetryGivesUp(tasks[i].attempt, MAX_RETRIES, error)
        /\ tasks' = [tasks EXCEPT ![i].attempt = @ + 1]
    /\ UNCHANGED <<pc, outcome, swallowed, orphans, carried, uploadedFileIdByPath>>
    /\ PipelineFrame

\* POST /files succeeded: uploadedFileIdByPath.set(absolutePath, fileId);
\* when it was the last upload of the batch, the attach map
UploadOk ==
    /\ pc = "uploads"
    /\ \E i \in DOMAIN tasks :
        /\ tasks[i].up = "uploading"
        /\ uploadedFileIdByPath' =
              BoundedMapSet(uploadedFileIdByPath, MAX_CACHE_SIZE, tasks[i].abs,
                            FreshId(FileIdsHeld))
        /\ LET ts == [tasks EXCEPT ![i].up = "uploaded", ![i].id = FreshId(FileIdsHeld),
                                   ![i].attempt = 0]
               all == \A j \in DOMAIN ts : ts[j].up \in {"cached", "uploaded"}
           IN  /\ tasks' = IF all THEN AttachMap(ts) ELSE ts
               /\ pc' = IF all THEN "attaches" ELSE "uploads"
    /\ UNCHANGED <<outcome, swallowed, orphans, carried>>
    /\ PipelineFrame

\* POST /files: an attempt fails and withRetry rethrows
UploadFail ==
    /\ pc = "uploads"
    /\ \E i \in DOMAIN tasks :
        /\ tasks[i].up = "uploading"
        /\ \E error \in CallErrors :
            /\ WithRetryGivesUp(tasks[i].attempt, MAX_RETRIES, error)
            /\ PipelineFails(i, RemoteCallError(error))
    /\ UNCHANGED <<swallowed, carried, uploadedFileIdByPath>>
    /\ PipelineFrame

\* the errors an attach request fails with: those of any call, and 409
AttachErrors == CallErrors \cup {HttpError(CONFLICT)}

\* mutant of AttachSwallows: a 409 is rethrown like any other error
AttachSwallows_Never(error) == FALSE

\* the catch block around addFileToVectorStore returns instead of rethrowing
AttachSwallows(error) == error.type = "HttpError" /\ error.statusCode = CONFLICT

\* every attach promise of the batch is fulfilled
AttachSettled(ts) == \A j \in DOMAIN ts : ts[j].at \in {"attached", "conflict"}

\* an attach promise is fulfilled; when it was the last one,
\* ensureFilesInVectorStore returns and, the invocation having no images,
\* runAssistantOnThread runs up to the message post
AttachFulfilled(ts) ==
    /\ tasks' = IF AttachSettled(ts) THEN <<>> ELSE ts
    /\ pc' = IF AttachSettled(ts) THEN "post_message" ELSE "attaches"
    /\ UNCHANGED <<outcome, orphans, carried>>

\* POST /vector_stores/{id}/files: an attempt fails, withRetry sleeps and
\* tries again
AttachRetry ==
    /\ pc = "attaches"
    /\ \E i \in DOMAIN tasks :
        /\ tasks[i].at = "attaching"
        /\ \E error \in AttachErrors :
              ~WithRetryGivesUp(tasks[i].attempt, MAX_RETRIES, error)
        /\ tasks' = [tasks EXCEPT ![i].attempt = @ + 1]
    /\ UNCHANGED <<pc, outcome, swallowed, orphans, carried, uploadedFileIdByPath>>
    /\ PipelineFrame

\* POST /vector_stores/{id}/files succeeded
AttachOk ==
    /\ pc = "attaches"
    /\ \E i \in DOMAIN tasks :
        /\ tasks[i].at = "attaching"
        /\ AttachFulfilled([tasks EXCEPT ![i].at = "attached"])
    /\ UNCHANGED <<swallowed, uploadedFileIdByPath>>
    /\ PipelineFrame

\* POST /vector_stores/{id}/files: an attempt fails and withRetry rethrows;
\* the catch block swallows a 409 and rethrows anything else, which rejects
\* Promise.all(addPromises) and fails the invocation
AttachFail ==
    /\ pc = "attaches"
    /\ \E i \in DOMAIN tasks :
        /\ tasks[i].at = "attaching"
        /\ \E error \in AttachErrors :
            /\ WithRetryGivesUp(tasks[i].attempt, MAX_RETRIES, error)
            /\ IF AttachSwallows(error)
               THEN /\ AttachFulfilled([tasks EXCEPT ![i].at = "conflict"])
                    /\ swallowed' = TRUE
               ELSE /\ tasks' = <<>>
                    /\ pc' = "done"
                    /\ outcome' = AttachRethrown(error)
                    /\ orphans' = orphans
                    /\ swallowed' = swallowed
                    /\ carried' =
                          IF carried = WipedCarried THEN NoCarried
                          ELSE [tool |-> toolName,
                                paths |-> {tasks[j].abs : j \in UploadedBy(tasks)},
                                ids |-> {tasks[j].id : j \in UploadedBy(tasks)}]
    /\ UNCHANGED uploadedFileIdByPath
    /\ PipelineFrame

\* what no step of a background upload changes
OrphanFrame ==
    UNCHANGED <<pollTimeoutMs, threadByTool, nextThreadId, pc, toolName, hadThread,
                threadId, httpAttempt, iter, currentStatus, log, outcome, firstThread,
                knownAtStart, vectorStoreByTool, files, vectorStoreId, tasks, swallowed,
                carried, cacheVars, auxVars, retryVars>>

\* an upload left behind by a failed invocation succeeds:
\* uploadedFileIdByPath.set(absolutePath, fileId)
OrphanUploaded ==
    /\ \E absolutePath \in orphans :
        /\ uploadedFileIdByPath' =
              BoundedMapSet(uploadedFileIdByPath, MAX_CACHE_SIZE, absolutePath,
                            FreshId(FileIdsHeld))
        /\ orphans' = orphans \ {absolutePath}
    /\ OrphanFrame

\* an upload left behind by a failed invocation fails (readFile or POST
\* /files); nothing awaits its promise
OrphanFailed ==
    /\ \E absolutePath \in orphans : orphans' = orphans \ {absolutePath}
    /\ UNCHANGED uploadedFileIdByPath
    /\ OrphanFrame

\* POST /threads/{id}/messages succeeded: go on to create the run
PostMessageOk ==
    /\ pc = "post_message"
    /\ log' = Append(log, Ev(pc, TRUE, "-", "-"))
    /\ pc' = "create_run"
    /\ httpAttempt' = 0
    /\ UNCHANGED <<pollTimeoutMs, threadByTool, nextThreadId, toolName, hadThread,
                   threadId, iter, currentStatus, outcome, firstThread, knownAtStart,
                   fileVars, cacheVars, auxVars, retryVars>>

\* mutant of LoopHead: the loop has no iteration limit
LoopHead_Unbounded(i, status) ==
    [pc |-> "poll_sleep", iter |-> i, outcome |-> NoOutcome]

\* mutant of LoopHead: reads the messages whatever the last status is
LoopHead_NoTimeoutCheck(i, status) ==
    IF i < MaxIterations
    THEN [pc |-> "poll_sleep", iter |-> i, outcome |-> NoOutcome]
    ELSE [pc |-> "list_messages", iter |-> i, outcome |-> NoOutcome]

\* the test of the for loop and, when it is false, the check after the loop:
\* the timeout error unless the last status is completed
LoopHead(i, status) ==
    IF i < MaxIterations
    THEN [pc |-> "poll_sleep", iter |-> i, outcome |-> NoOutcome]
    ELSE IF status # COMPLETED
    THEN [pc |-> "done", iter |-> i, outcome |-> TimeoutError(status)]
    ELSE [pc |-> "list_messages", iter |-> i, outcome |-> NoOutcome]

\* POST /threads/{id}/runs succeeded: currentStatus = run.status, enter the loop
CreateRunOk ==
    /\ pc = "create_run"
    /\ \E status \in RunStatuses :
        /\ currentStatus' = status
        /\ pc' = LoopHead(0, status).pc
        /\ outcome' = LoopHead(0, status).outcome
    /\ iter' = 0
    /\ log' = Append(log, Ev(pc, TRUE, "-", "-"))
    /\ httpAttempt' = 0
    /\ UNCHANGED <<pollTimeoutMs, threadByTool, nextThreadId, toolName, hadThread,
                   threadId, firstThread, knownAtStart, fileVars,
                   cacheVars, auxVars, retryVars>>

\* the sleep of one poll interval ends: issue GET /threads/{id}/runs/{runId}
PollSleep ==
    /\ pc = "poll_sleep"
    /\ log' = Append(log, Ev(pc, TRUE, "-", "-"))
    /\ pc' = "fetch_status"
    /\ httpAttempt' = 0
    /\ UNCHANGED <<pollTimeoutMs, threadByTool, nextThreadId, toolName, hadThread,
                   threadId, iter, currentStatus, outcome, firstThread, knownAtStart, fileVars,
                   cacheVars, auxVars, retryVars>>

\* mutant of PollStep: no longer treats expired as a failed run
PollStep_ExpiredGoesOn(i, status, lastError) ==
    IF status = COMPLETED
    THEN [pc |-> "list_messages", iter |-> i, outcome |-> NoOutcome]
    ELSE IF status \in FAILED_RUN_STATUSES \ {"expired"}
    THEN [pc |-> "done", iter |-> i, outcome |-> RunFailedError(status, lastError)]
    ELSE LoopHead(i + 1, status)

\* mutant of PollStep: posts the message again after a failed run
PollStep_RetriesFailedRun(i, status, lastError) ==
    IF status = COMPLETED
    THEN [pc |-> "list_messages", iter |-> i, outcome |-> NoOutcome]
    ELSE IF status \in FAILED_RUN_STATUSES
    THEN [pc |-> "post_message", iter |-> i, outcome |-> NoOutcome]
    ELSE LoopHead(i + 1, status)

\* the body of the loop after the status fetch: break on completed (the
\* check after the loop then passes), throw on a failed status, else i++ and
\* the loop test
PollStep(i, status, lastError) ==
    IF status = COMPLETED
    THEN [pc |-> "list_messages", iter |-> i, outcome |-> NoOutcome]
    ELSE IF status \in FAILED_RUN_STATUSES
    THEN [pc |-> "done", iter |-> i, outcome |-> RunFailedError(status, lastError)]
    ELSE LoopHead(i + 1, status)

\* the status fetch succeeded
FetchStatusOk ==
    /\ pc = "fetch_status"
    /\ \E status \in RunStatuses :
      \E lastError \in RemoteLastErrors(status) :
        LET step == PollStep(iter, status, lastError)
        IN  /\ currentStatus' = status
            /\ log' = Append(log, Ev(pc, TRUE, status, lastError))
            /\ pc' = step.pc
            /\ iter' = step.iter
            /\ outcome' = step.outcome
    /\ httpAttempt' = 0
    /\ UNCHANGED <<pollTimeoutMs, threadByTool, nextThreadId, toolName, hadThread,
                   threadId, firstThread, knownAtStart, fileVars,
                   cacheVars, auxVars, retryVars>>

\* the message lists the service answers with in the model, by name: each is
\* messages.data, newest message first, a message being the types of its
\* content parts
Replies == {"no_message", "text", "image", "image_text", "image_then_text"}

MessagesOf(name) ==
    CASE name = "no_message" -> <<>>
      [] name = "text" -> <<<<"text">>>>
      [] name = "image" -> <<<<"image_file">>>>
      [] name = "image_text" -> <<<<"image_file", "text">>>>
      [] name = "image_then_text" -> <<<<"image_file">>, <<"text">>>>

\* mutant of HasTextContent: any message of the list will do
HasTextContent_AnyMessage(data) ==
    \E j \in 1..Len(data) : \E h \in 1..Len(data[j]) : data[j][h] = "text"

\* messages.data?.[0]?.content?.find((c) => c.type === "text") is defined
HasTextContent(data) ==
    /\ data # <<>>
    /\ \E h \in 1..Len(data[1]) : data[1][h] = "text"

\* GET /threads/{id}/messages succeeded: the newest message has a text part
\* or "No text response found" is thrown
ListMessagesOk ==
    /\ pc = "list_messages"
    /\ \E name \in Replies :
          /\ outcome' = IF HasTextContent(MessagesOf(name)) THEN Returned ELSE NoTextError
          /\ log' = Append(log, Ev(pc, TRUE, name, "-"))
    /\ pc' = "done"
    /\ UNCHANGED <<pollTimeoutMs, threadByTool, nextThreadId, toolName, hadThread,
                   threadId, httpAttempt, iter, currentStatus, firstThread, knownAtStart, fileVars,
                   cacheVars, auxVars, retryVars>>

\* reset_all_specialists with confirm: clear() on every registry
ResetAll ==
    /\ pc # "off"
    /\ threadByTool # <<>> \/ vectorStoreByTool # <<>> \/ uploadedFileIdByPath # <<>>
    /\ threadByTool' = <<>>
    /\ vectorStoreByTool' = <<>>
    /\ uploadedFileIdByPath' = <<>>
    /\ firstThread' = [tool \in Tools |-> 0]
    /\ carried' = IF pc \in {"uploads", "attaches"} THEN WipedCarried ELSE NoCarried
    /\ UNCHANGED <<pollTimeoutMs, nextThreadId, pc, toolName, hadThread, threadId,
                   httpAttempt, iter, currentStatus, log, outcome, knownAtStart,
                   files, vectorStoreId, tasks, swallowed, orphans, cacheVars, auxVars,
                   retryVars>>

Next ==
    \/ Invoke
    \/ HttpRetry
    \/ HttpFail
    \/ CreateThreadOk
    \/ PostMessageOk
    \/ CreateRunOk
    \/ PollSleep
    \/ FetchStatusOk
    \/ ListMessagesOk
    \/ ResetAll

Spec == ServerInit /\ [][Next]_vars

FilesNext ==
    \/ InvokeWithFiles
    \/ HttpRetry
    \/ HttpFail
    \/ CreateThreadOk
    \/ CreateVectorStoreOk
    \/ ReadOk
    \/ ReadFail
    \/ UploadRetry
    \/ UploadOk
    \/ UploadFail
    \/ AttachRetry
    \/ AttachOk
    \/ AttachFail
    \/ OrphanUploaded
    \/ OrphanFailed
    \/ PostMessageOk
    \/ CreateRunOk
    \/ ListMessagesOk
    \/ ResetAll

SpecFiles == FilesInit /\ [][FilesNext]_vars

-----------------------------------------------------------------------------
(* SpecConc: specialist invocations that overlap, and the utility tools.    *)
(* An invocation is followed from one await of the handler to the next; a   *)
(* remote call succeeds or fails as a whole (its retries are the subject of *)
(* SpecRetry and Spec), polling and the reading of the reply are one step.  *)

\* an image path callers supply: "i.png"
PathPng == <<"i", ".", "p", "n", "g">>

\* path.extname: from the last "." of the last segment on, "" when it has
\* none or only a leading one
RECURSIVE LastIndexOf(_, _, _)
LastIndexOf(str, ch, j) ==
    IF j = 0 THEN 0
    ELSE IF str[j] = ch THEN j
    ELSE LastIndexOf(str, ch, j - 1)

ExtName(absolutePath) ==
    LET slash == LastIndexOf(absolutePath, "/", Len(absolutePath))
        dot == LastIndexOf(absolutePath, ".", Len(absolutePath))
    IN  IF dot > slash + 1 THEN SubSeq(absolutePath, dot, Len(absolutePath)) ELSE <<>>

\* String.prototype.toLowerCase on the letters of the model
ToLowerCase(str) ==
    [j \in 1..Len(str) |->
        CASE str[j] = "P" -> "p"
          [] str[j] = "N" -> "n"
          [] str[j] = "G" -> "g"
          [] OTHER -> str[j]]

VISION_IMAGE_EXTENSIONS ==
    {<<".", "p", "n", "g">>, <<".", "j", "p", "g">>, <<".", "j", "p", "e", "g">>,
     <<".", "g", "i", "f">>, <<".", "w", "e", "b", "p">>}

\* mutant of SupportedImage: every extension is accepted
SupportedImage_Any(absolutePath) == TRUE

\* uploadImageForVision accepts the extension of the path
SupportedImage(absolutePath) == ToLowerCase(ExtName(absolutePath)) \in VISION_IMAGE_EXTENSIONS

\* the invocations that are awaiting something
InFlight == {i \in Invocations : inv[i].pc \notin {"idle", "done"}}

\* the thread, vector store and file ids the program holds or has held
ThreadIdsSeen ==
    {threadByTool[j].v : j \in 1..Len(threadByTool)}
        \cup {inv[i].threadId : i \in Invocations}
        \cup {inv[i].prevThread : i \in Invocations}
        \cup UNION {made[tool].threads : tool \in Tools}

StoreIdsSeen ==
    {vectorStoreByTool[j].v : j \in 1..Len(vectorStoreByTool)}
        \cup {inv[i].vectorStoreId : i \in Invocations}
        \cup {inv[i].prevStore : i \in Invocations}
        \cup UNION {made[tool].stores : tool \in Tools}

FileIdsSeen ==
    {uploadedFileIdByPath[j].v : j \in 1..Len(uploadedFileIdByPath)}
        \cup {uploadedVisionFileIdByPath[j].v : j \in 1..Len(uploadedVisionFileIdByPath)}
        \cup {inv[i].fileId : i \in Invocations}
        \cup {inv[i].imageFileId : i \in Invocations}

\* the invocation ends: the handler returns or throws, its locals are gone
Ended(r, how) == [NoInvocation EXCEPT !.pc = "done", !.tool = r.tool, !.result = how]

\* mutant of RunBody: the run never names a vector store
RunBody_NoResources(storeId) == <<>>

\* runBody.tool_resources.file_search.vector_store_ids, <<>> when the body
\* has no tool_resources
RunBody(storeId) == IF storeId # 0 THEN <<storeId>> ELSE <<>>

\* mutant of AfterFiles: the image lookup is made in the document pool
AfterFiles_DocumentPool(r, visions) ==
    IF r.image_files = <<>> THEN [r EXCEPT !.pc = "post_message"]
    ELSE LET absolutePath == PathResolve(r.image_files[1])
             fileId == UploadLookup(uploadedFileIdByPath, absolutePath)
         IN  IF fileId # 0
             THEN [r EXCEPT !.imageFileId = fileId, !.pc = "post_message"]
             ELSE [r EXCEPT !.pc = "vision_upload"]

\* the handler from the image uploads on: uploadImagesForVision up to its
\* first await (one image file at most in this specification), and when
\* there is nothing to upload runAssistantOnThread up to the message post
AfterFiles(r, visions) ==
    IF r.image_files = <<>> THEN [r EXCEPT !.pc = "post_message"]
    ELSE LET absolutePath == PathResolve(r.image_files[1])
             fileId == UploadLookup(visions, absolutePath)
         IN  IF ~ValidPath(r.image_files[1]) THEN Ended(r, "validation_error")
             ELSE IF fileId # 0
             THEN [r EXCEPT !.imageFileId = fileId, !.pc = "post_message"]
             ELSE IF ~ValidPath(absolutePath) \/ ~SupportedImage(absolutePath)
             THEN Ended(r, "validation_error")
             ELSE [r EXCEPT !.pc = "vision_upload"]

\* mutant of AfterStore: a file found in the upload cache is not attached
AfterStore_SkipCached(r, uploads) ==
    LET absolutePath == PathResolve(r.files[1])
        fileId == UploadLookup(uploads, absolutePath)
    IN  IF ~ValidPath(r.files[1]) THEN Ended(r, "validation_error")
        ELSE IF fileId # 0
        THEN AfterFiles([r EXCEPT !.fileId = fileId], uploadedVisionFileIdByPath)
        ELSE IF ~ValidPath(absolutePath) THEN Ended(r, "validation_error")
        ELSE [r EXCEPT !.pc = "upload"]

\* ensureFilesInVectorStore once the vector store id is known, up to its
\* next await (one file at most in this specification)
AfterStore(r, uploads) ==
    LET absolutePath == PathResolve(r.files[1])
        fileId == UploadLookup(uploads, absolutePath)
    IN  IF ~ValidPath(r.files[1]) THEN Ended(r, "validation_error")
        ELSE IF fileId # 0 THEN [r EXCEPT !.fileId = fileId, !.pc = "attach"]
        ELSE IF ~ValidPath(absolutePath) THEN Ended(r, "validation_error")
        ELSE [r EXCEPT !.pc = "upload"]

\* mutant of LocalStore: reset_files does not keep the cached vector store
\* from the run of an invocation without files
LocalStore_Stale(r, stores) == IF r.reset_files THEN r.prevStore ELSE StoreOf(stores, r.tool)

\* the handler without files: vectorStoreId = vectorStoreByTool.get(toolName)
LocalStore(r, stores) == StoreOf(stores, r.tool)

\* the handler once the thread id is known, up to its next await
AfterThreadOf(r, stores, uploads, visions) ==
    IF r.files # <<>>
    THEN IF MapHas(stores, r.tool)
         THEN AfterStore([r EXCEPT !.vectorStoreId = MapGet(stores, r.tool)], uploads)
         ELSE [r EXCEPT !.pc = "create_vector_store"]
    ELSE AfterFiles([r EXCEPT !.vectorStoreId = LocalStore(r, stores)], visions)

\* POST /files returned the id for this path and purpose: the record of an
\* earlier file that had the id and is held nowhere any more is replaced
Recorded(id, absolutePath, purpose) ==
    {u \in uploadedAs : u.id # id}
        \cup {[id |-> id, path |-> absolutePath, purpose |-> purpose]}

\* what the utility tools leave alone
ConcFrame ==
    UNCHANGED <<pollTimeoutMs, nextThreadId, pc, toolName, hadThread, threadId,
                httpAttempt, iter, currentStatus, log, outcome, firstThread,
                knownAtStart, files, vectorStoreId, tasks, swallowed, orphans,
                carried, cacheVars, retryVars, msgVars, replyVars, procVars>>

\* the arguments of the invocations of this specification
ConcFileBatches == {<<>>, <<PathA>>}
ConcImageBatches == {<<>>, <<PathPng>>}

\* mutant of FlagsApplied: a reset flag clears the whole registry
FlagsApplied_ClearAll(registry, flag, tool) == IF flag THEN <<>> ELSE registry

\* mutant of FlagsApplied: the reset flags are ignored
FlagsApplied_Never(registry, flag, tool) == registry

\* if (reset_thread) threadByTool.delete(toolName), and the same for
\* reset_files and vectorStoreByTool
FlagsApplied(registry, flag, tool) == IF flag THEN MapDelete(registry, tool) ELSE registry

\* a reset of the tool's entries crosses the invocations of the tool in flight
Crossed(i, tool, which) ==
    [j \in Invocations |->
        IF j # i /\ j \in InFlight /\ (tool = "*" \/ inv[j].tool = tool) /\ which
        THEN [inv[j] EXCEPT !.crossed = TRUE] ELSE inv[j]]

\* the handler of a specialist tool is entered while others may be in
\* flight: the reset flags, getOrCreateThreadId and, with a cached thread,
\* on to the next await
InvokeOf(i, tool, reset_thread, reset_files, batch, images) ==
    /\ inv[i].pc \in {"idle", "done"}
    /\  LET registry == FlagsApplied(threadByTool, reset_thread, tool)
            stores == FlagsApplied(vectorStoreByTool, reset_files, tool)
            r == [NoInvocation EXCEPT !.tool = tool, !.reset_thread = reset_thread,
                                      !.reset_files = reset_files, !.files = batch,
                                      !.image_files = images,
                                      !.prevThread = IF reset_thread
                                                     THEN StoreOf(threadByTool, tool)
                                                     ELSE 0,
                                      !.prevStore = IF reset_files
                                                    THEN StoreOf(vectorStoreByTool, tool)
                                                    ELSE 0]
            others == Crossed(i, tool, reset_thread \/ reset_files)
        IN  /\ threadByTool' = registry
            /\ vectorStoreByTool' = stores
            /\ made' = [made EXCEPT
                          ![tool].threads = IF reset_thread THEN {} ELSE @,
                          ![tool].stores = IF reset_files THEN {} ELSE @,
                          ![tool].fresh = FALSE]
            /\ inv' = [others EXCEPT ![i] =
                          IF ExistingThread(registry, tool)
                          THEN AfterThreadOf([r EXCEPT !.threadId = MapGet(registry, tool)],
                                             stores, uploadedFileIdByPath,
                                             uploadedVisionFileIdByPath)
                          ELSE [r EXCEPT !.pc = "create_thread"]]
    /\ UNCHANGED <<uploadedFileIdByPath, uploadedVisionFileIdByPath, health, uploadedAs>>
    /\ report' = NoReport
    /\ ConcFrame

\* a specialist tool is invoked with a prompt, reset flags and files, while
\* another invocation may be in flight
ConcInvoke ==
    \E tool \in FileTools, reset_thread \in BOOLEAN, reset_files \in BOOLEAN,
       batch \in ConcFileBatches :
        InvokeOf(1, tool, reset_thread, reset_files, batch, <<>>)

\* the same tool is invoked once more, without reset flags, while the
\* other invocation may be in flight
ConcInvokeToo ==
    \E tool \in FileTools, batch \in ConcFileBatches :
        InvokeOf(2, tool, FALSE, FALSE, batch, <<>>)

\* a specialist tool is invoked with a prompt, reset_files, files and image
\* files, no other invocation being in flight
ToolsInvoke ==
    \E tool \in Tools, reset_files \in BOOLEAN,
       batch \in ConcFileBatches, images \in ConcImageBatches :
        InvokeOf(1, tool, FALSE, reset_files, batch, images)

\* POST /threads returned: threadByTool.set(toolName, thread.id)
ConcCreateThreadOk(i) ==
    /\ inv[i].pc = "create_thread"
    /\ LET id == FreshId(ThreadIdsSeen)
           tool == inv[i].tool
       IN  /\ threadByTool' = BoundedMapSet(threadByTool, MAX_CACHE_SIZE, tool, id)
           /\ made' = [made EXCEPT ![tool].threads = @ \cup {id}]
           /\ inv' = [inv EXCEPT ![i] =
                         AfterThreadOf([inv[i] EXCEPT !.threadId = id], vectorStoreByTool,
                                       uploadedFileIdByPath, uploadedVisionFileIdByPath)]
    /\ UNCHANGED <<vectorStoreByTool, uploadedFileIdByPath, uploadedVisionFileIdByPath, health, uploadedAs>>
    /\ report' = NoReport
    /\ ConcFrame

\* POST /vector_stores returned: vectorStoreByTool.set(toolName, vectorStore.id)
ConcCreateVectorStoreOk(i) ==
    /\ inv[i].pc = "create_vector_store"
    /\ LET id == FreshId(StoreIdsSeen)
           tool == inv[i].tool
       IN  /\ vectorStoreByTool' = BoundedMapSet(vectorStoreByTool, MAX_CACHE_SIZE, tool, id)
           /\ made' = [made EXCEPT ![tool].stores = @ \cup {id}]
           /\ inv' = [inv EXCEPT ![i] =
                         AfterStore([inv[i] EXCEPT !.vectorStoreId = id],
                                    uploadedFileIdByPath)]
    /\ UNCHANGED <<threadByTool, uploadedFileIdByPath, uploadedVisionFileIdByPath, health, uploadedAs>>
    /\ report' = NoReport
    /\ ConcFrame

\* mutant of ConcUploadOk: the cache is keyed by the path as it was given
ConcUploadOk_RawKey(i) ==
    /\ inv[i].pc = "upload"
    /\ LET id == FreshId(FileIdsSeen)
       IN  /\ uploadedFileIdByPath' =
                 BoundedMapSet(uploadedFileIdByPath, MAX_CACHE_SIZE, inv[i].files[1], id)
           /\ inv' = [inv EXCEPT ![i].fileId = id, ![i].pc = "attach",
                                  ![i].uploaded = TRUE]
           /\ uploadedAs' = Recorded(id, PathResolve(inv[i].files[1]), "assistants")
    /\ UNCHANGED <<threadByTool, vectorStoreByTool, uploadedVisionFileIdByPath, made, health>>
    /\ report' = NoReport
    /\ ConcFrame

\* readFile and POST /files returned: uploadedFileIdByPath.set(absolutePath,
\* fileId); the upload being the only one of the batch, the attach follows
ConcUploadOk(i) ==
    /\ inv[i].pc = "upload"
    /\ LET id == FreshId(FileIdsSeen)
       IN  /\ uploadedFileIdByPath' =
                 BoundedMapSet(uploadedFileIdByPath, MAX_CACHE_SIZE,
                               PathResolve(inv[i].files[1]), id)
           /\ inv' = [inv EXCEPT ![i].fileId = id, ![i].pc = "attach",
                                  ![i].uploaded = TRUE]
           /\ uploadedAs' = Recorded(id, PathResolve(inv[i].files[1]), "assistants")
    /\ UNCHANGED <<threadByTool, vectorStoreByTool, uploadedVisionFileIdByPath, made, health>>
    /\ report' = NoReport
    /\ ConcFrame

\* POST /vector_stores/{id}/files returned, or failed with a 409 that the
\* catch block swallowed: ensureFilesInVectorStore returns
ConcAttachOk(i) ==
    /\ inv[i].pc = "attach"
    /\ inv' = [inv EXCEPT ![i] = AfterFiles(inv[i], uploadedVisionFileIdByPath)]
    /\ UNCHANGED <<threadByTool, vectorStoreByTool, uploadedFileIdByPath,
                   uploadedVisionFileIdByPath, made, health, uploadedAs>>
    /\ report' = NoReport
    /\ ConcFrame

\* readFile and POST /files (purpose vision) returned:
\* uploadedVisionFileIdByPath.set(absolutePath, fileId)
ConcVisionUploadOk(i) ==
    /\ inv[i].pc = "vision_upload"
    /\ LET id == FreshId(FileIdsSeen)
       IN  /\ uploadedVisionFileIdByPath' =
                 BoundedMapSet(uploadedVisionFileIdByPath, MAX_CACHE_SIZE,
                               PathResolve(inv[i].image_files[1]), id)
           /\ inv' = [inv EXCEPT ![i].imageFileId = id, ![i].pc = "post_message"]
           /\ uploadedAs' = Recorded(id, PathResolve(inv[i].image_files[1]), "vision")
    /\ UNCHANGED <<threadByTool, vectorStoreByTool, uploadedFileIdByPath, made, health>>
    /\ report' = NoReport
    /\ ConcFrame

\* POST /threads/{id}/messages returned: the run request is built and sent
ConcPostMessageOk(i) ==
    /\ inv[i].pc = "post_message"
    /\ inv' = [inv EXCEPT ![i].pc = "create_run",
                          ![i].runStores = RunBody(inv[i].vectorStoreId)]
    /\ UNCHANGED <<threadByTool, vectorStoreByTool, uploadedFileIdByPath,
                   uploadedVisionFileIdByPath, made, health, uploadedAs>>
    /\ report' = NoReport
    /\ ConcFrame

\* POST /threads/{id}/runs returned; the run is polled to completion and the
\* reply is read: the handler returns
ConcCreateRunOk(i) ==
    /\ inv[i].pc = "create_run"
    /\ inv' = [inv EXCEPT ![i] = Ended(inv[i], "returned")]
    /\ UNCHANGED <<threadByTool, vectorStoreByTool, uploadedFileIdByPath,
                   uploadedVisionFileIdByPath, made, health, uploadedAs>>
    /\ report' = NoReport
    /\ ConcFrame

\* the remote call (or file read) the invocation awaits fails for good: the
\* handler throws
ConcCallFails(i) ==
    /\ i \in InFlight
    /\ inv' = [inv EXCEPT ![i] = Ended(inv[i], "remote_error")]
    /\ UNCHANGED <<threadByTool, vectorStoreByTool, uploadedFileIdByPath,
                   uploadedVisionFileIdByPath, made, health, uploadedAs>>
    /\ report' = NoReport
    /\ ConcFrame

\* the sizes of the four registries, in the order reset-all reports them
RegistrySizes ==
    <<Len(threadByTool), Len(vectorStoreByTool), Len(uploadedFileIdByPath),
      Len(uploadedVisionFileIdByPath)>>

\* mutant of Cleared: reset-all clears whatever confirm is
Cleared_Always(confirm, registry) == <<>>

\* reset_all_specialists: if (confirm) registry.clear()
Cleared(confirm, registry) == IF confirm THEN <<>> ELSE registry

\* reset_all_specialists({confirm}); confirm is true when the caller omits it
ConcResetAll ==
    /\ \E confirm \in BOOLEAN :
        /\ threadByTool' = Cleared(confirm, threadByTool)
        /\ vectorStoreByTool' = Cleared(confirm, vectorStoreByTool)
        /\ uploadedFileIdByPath' = Cleared(confirm, uploadedFileIdByPath)
        /\ uploadedVisionFileIdByPath' = Cleared(confirm, uploadedVisionFileIdByPath)
        /\ report' = IF confirm
                     THEN [tool |-> "reset_all_specialists", status |-> "reset",
                           counts |-> RegistrySizes, call |-> "-"]
                     ELSE [tool |-> "reset_all_specialists", status |-> "cancelled",
                           counts |-> <<>>, call |-> "-"]
        /\ made' = IF confirm THEN [tool \in Tools |-> NoMade] ELSE made
        /\ inv' = Crossed(0, "*", confirm)
        /\ uploadedAs' = IF confirm
                         THEN {u \in uploadedAs :
                                  \E i \in Invocations :
                                      u.id \in {inv[i].fileId, inv[i].imageFileId}}
                         ELSE uploadedAs
    /\ UNCHANGED health
    /\ ConcFrame

\* list_specialists_status
ConcListStatus ==
    /\ report' = [tool |-> "list_specialists_status", status |-> "listed",
                  counts |-> RegistrySizes, call |-> "-"]
    /\ UNCHANGED <<threadByTool, vectorStoreByTool, uploadedFileIdByPath,
                   uploadedVisionFileIdByPath, made, inv, health, uploadedAs>>
    /\ ConcFrame

\* what the health check leaves alone
HealthFrame ==
    /\ UNCHANGED <<threadByTool, vectorStoreByTool, uploadedFileIdByPath,
                   uploadedVisionFileIdByPath, made, inv, uploadedAs>>
    /\ ConcFrame

\* check_openai_connection is entered: openaiFetch("/models") starts
HealthStart ==
    /\ health = -1
    /\ health' = 0
    /\ report' = NoReport
    /\ HealthFrame

\* the request to /models fails and withRetry tries again
HealthRetry ==
    /\ health >= 0
    /\ \E error \in CallErrors : ~WithRetryGivesUp(health, MAX_RETRIES, error)
    /\ health' = health + 1
    /\ report' = NoReport
    /\ HealthFrame

\* mutant of HealthResult: a failed probe is thrown to the caller
HealthResult_Throws(ok) == IF ok THEN "healthy" ELSE "thrown"

\* the status of the JSON text the health check returns
HealthResult(ok) == IF ok THEN "healthy" ELSE "unhealthy"

\* the request to /models succeeds: the try block returns
HealthOk ==
    /\ health >= 0
    /\ report' = [tool |-> "check_openai_connection", status |-> HealthResult(TRUE),
                  counts |-> <<health + 1>>, call |-> "resolved"]
    /\ health' = -1
    /\ HealthFrame

\* openaiFetch("/models") throws: the catch block returns
HealthFail ==
    /\ health >= 0
    /\ \E error \in CallErrors : WithRetryGivesUp(health, MAX_RETRIES, error)
    /\ report' = [tool |-> "check_openai_connection", status |-> HealthResult(FALSE),
                  counts |-> <<health + 1>>, call |-> "rejected"]
    /\ health' = -1
    /\ HealthFrame

ConcInit ==
    /\ ServerIdle
    /\ CacheIdle
    /\ RetryIdle
    /\ AuxIdle

ConcNext ==
    \/ ConcInvoke
    \/ ConcInvokeToo
    \/ \E i \in Invocations : ConcCreateThreadOk(i)
    \/ \E i \in Invocations : ConcCreateVectorStoreOk(i)
    \/ \E i \in Invocations : ConcUploadOk(i)
    \/ \E i \in Invocations : ConcAttachOk(i)
    \/ \E i \in Invocations : ConcPostMessageOk(i)
    \/ \E i \in Invocations : ConcCreateRunOk(i)
    \/ \E i \in Invocations : ConcCallFails(i)

SpecConc == ConcInit /\ [][ConcNext]_vars

\* SpecTools: one invocation at a time, with image files, and the three
\* utility tools at any moment
ToolsNext ==
    \/ ToolsInvoke
    \/ ConcCreateThreadOk(1)
    \/ ConcCreateVectorStoreOk(1)
    \/ ConcUploadOk(1)
    \/ ConcAttachOk(1)
    \/ ConcVisionUploadOk(1)
    \/ ConcPostMessageOk(1)
    \/ ConcCreateRunOk(1)
    \/ ConcCallFails(1)
    \/ ConcResetAll
    \/ ConcListStatus
    \/ HealthStart
    \/ HealthRetry
    \/ HealthOk
    \/ HealthFail

SpecTools == ConcInit /\ [][ToolsNext]_vars

-----------------------------------------------------------------------------
(* Claims about the bounded cache, checked under SpecCache *)

KeySet(m) == {m[j].k : j \in 1..Len(m)}

\* the last call was a set of a key the map did not hold, on a full map
SetNewAtCapacity ==
    /\ cacheOp.op = "set"
    /\ Len(cachePrev) >= maxSize
    /\ ~MapHas(cachePrev, cacheOp.k)

\* the last call was a set of a key the map already held
SetExisting == cacheOp.op = "set" /\ MapHas(cachePrev, cacheOp.k)

\* C6: a bounded cache of capacity C >= 1 never holds more than C entries,
\* whatever sequence of set, get, has, delete and clear calls it receives.
C6_CacheBounded == maxSize >= 1 /\ Len(cache) <= maxSize

\* C6 witness: a set of a new key arrived at a full cache, which is still full.
C6_Witness == SetNewAtCapacity /\ Len(cache) = maxSize /\ maxSize = MaxCapacity

\* C7: a set of a new key on a full cache evicts exactly one entry, the one
\* inserted earliest among the survivors; get, has and an overwrite leave the
\* oldest entry the oldest; a deleted key that is set again becomes the newest.
C7_FifoEviction ==
    /\ MapKeys(cache) = insOrder
    /\ SetNewAtCapacity =>
          /\ KeySet(cachePrev) \ KeySet(cache) = {Head(insPrev)}
          /\ KeySet(cache) \ KeySet(cachePrev) = {cacheOp.k}
          /\ \A e \in Range(cachePrev) : e.k # Head(insPrev) => e \in Range(cache)
          /\ MapGet(cache, cacheOp.k) = cacheOp.v
    /\ cacheOp.op \in {"get", "has"} => cache = cachePrev
    /\ SetExisting => cache[1].k = cachePrev[1].k /\ Head(insOrder) = Head(insPrev)
    /\ (cacheOp.op = "set" /\ cachePrevOp.op = "delete" /\ cachePrevOp.k = cacheOp.k) =>
          cache[Len(cache)].k = cacheOp.k

\* C7 witness: a full cache of two entries whose older entry was read and
\* overwritten before a new key arrived, and the new key evicted that entry.
C7_Witness ==
    /\ SetNewAtCapacity
    /\ Len(cachePrev) = 2
    /\ cachePrevOp.op = "set"
    /\ cachePrevOp.k = Head(insPrev)
    /\ ~MapHas(cache, Head(insPrev))

\* C8: a set of a key already present replaces only that key's value: the
\* size, the other entries and the order of all keys stay as they were.
C8_OverwriteInPlace ==
    SetExisting =>
        /\ Len(cache) = Len(cachePrev)
        /\ MapKeys(cache) = MapKeys(cachePrev)
        /\ \A j \in 1..Len(cachePrev) :
              cache[j] = IF cachePrev[j].k = cacheOp.k
                         THEN [k |-> cacheOp.k, v |-> cacheOp.v]
                         ELSE cachePrev[j]

\* C8 witness: a full cache of two entries whose newer key was set to a value
\* different from the one it held.
C8_Witness ==
    /\ SetExisting
    /\ Len(cachePrev) = maxSize
    /\ maxSize = 2
    /\ cachePrev[2].k = cacheOp.k
    /\ cachePrev[2].v # cacheOp.v

-----------------------------------------------------------------------------
(* Claims about withRetry, checked under SpecRetry *)

Last(s) == s[Len(s)]

\* every call of fn so far failed with an error the default classifier retries
AllRetryableFailures(s) ==
    \A j \in 1..Len(s) : ~s[j].ok /\ defaultIsRetryable(s[j].err)

\* C9: when fn fails with retryable errors on its first k attempts, k <=
\* maxRetries, withRetry has not given up, and when the next attempt succeeds
\* withRetry returns that value after exactly k + 1 attempts.
C9_RetryThenSuccess ==
    /\ (AllRetryableFailures(outcomes) /\ Len(outcomes) <= rMaxRetries) =>
          /\ rpc \in {"call", "sleep"}
          /\ attempt + (IF rpc = "sleep" THEN 1 ELSE 0) = Len(outcomes)
    /\ (outcomes # <<>> /\ Last(outcomes).ok) =>
          /\ rpc = "returned"
          /\ rResult = Last(outcomes)
          /\ AllRetryableFailures(SubSeq(outcomes, 1, Len(outcomes) - 1))
          /\ Len(outcomes) - 1 <= rMaxRetries
          /\ attempt + 1 = Len(outcomes)
    /\ rpc = "returned" => outcomes # <<>> /\ Last(outcomes).ok

\* C9 witness: two 429 failures, then success on the third attempt.
C9_Witness ==
    /\ rpc = "returned"
    /\ Len(outcomes) = 3
    /\ outcomes[1] = Failure(HttpError(TOO_MANY_REQUESTS))
    /\ outcomes[2] = Failure(HttpError(TOO_MANY_REQUESTS))
    /\ rResult = Success("v2")

\* C10: the first non-retryable failure of fn is thrown to the caller at once:
\* no sleep follows it and fn is not called again, whatever maxRetries is and
\* however many retryable failures came before; a 404 on the first attempt
\* means exactly one attempt.
C10_NonRetryablePropagates ==
    /\ \A j \in 1..Len(outcomes) :
          (~outcomes[j].ok /\ ~defaultIsRetryable(outcomes[j].err)) =>
              /\ j = Len(outcomes)
              /\ rpc = "thrown"
              /\ rResult = outcomes[j]
              /\ sleeps = j - 1
    /\ (outcomes # <<>> /\ outcomes[1] = Failure(HttpError(NOT_FOUND))) =>
          Len(outcomes) = 1 /\ sleeps = 0

\* C10 witness: a 503, then a 404 with retries left; the 404 was thrown.
C10_Witness ==
    /\ rpc = "thrown"
    /\ rMaxRetries = 3
    /\ Len(outcomes) = 2
    /\ outcomes[1] = Failure(HttpError(SERVICE_UNAVAILABLE))
    /\ rResult = Failure(HttpError(NOT_FOUND))

\* C11: when every attempt fails with a retryable error, fn is called exactly
\* maxRetries + 1 times (3 times for maxRetries = 2), never more, and the
\* error thrown to the caller is the error of the last attempt itself.
C11_ExhaustedRethrowsLast ==
    /\ Len(outcomes) <= rMaxRetries + 1
    /\ (AllRetryableFailures(outcomes) /\ Len(outcomes) = rMaxRetries + 1) =>
          /\ rpc = "thrown"
          /\ rResult = Failure(Last(outcomes).err)
          /\ rResult.err = Last(outcomes).err
    /\ (rpc = "thrown" /\ AllRetryableFailures(outcomes)) =>
          /\ Len(outcomes) = rMaxRetries + 1
          /\ (rMaxRetries = 2 => Len(outcomes) = 3)

\* C11 witness: maxRetries = 2, three attempts failed with 500, 500 and 503,
\* and the 503 of the third attempt was thrown.
C11_Witness ==
    /\ rMaxRetries = 2
    /\ rpc = "thrown"
    /\ Len(outcomes) = 3
    /\ outcomes[1] = Failure(HttpError(INTERNAL_SERVER_ERROR))
    /\ outcomes[2] = Failure(HttpError(INTERNAL_SERVER_ERROR))
    /\ outcomes[3] = Failure(HttpError(SERVICE_UNAVAILABLE))
    /\ rResult.err = HttpError(SERVICE_UNAVAILABLE)

\* the errors the default classifier is said to retry: a transport failure of
\* the HTTP call, or a typed HTTP error with status 429, 500 or 503
SaidRetryable(error) ==
    \/ error = NetworkError
    \/ error.type = "HttpError" /\ error.statusCode \in {429, 500, 503}

\* the j-th attempt failed and withRetry went on to sleep and try again
Retried(j) == j < Len(outcomes) \/ (j = Len(outcomes) /\ rpc \in {"sleep", "call"})

\* C12: with the default classifier a failed attempt is followed by a retry
\* (attempts remaining) if and only if its error is a transport failure or
\* an HTTP error with status 429, 500 or 503; any other error (400, 401, 404,
\* 409, 502, a TypeError of another kind, an error of another type) is thrown
\* at once.
C12_DefaultClassifier ==
    /\ \A error \in AnyErrors : defaultIsRetryable(error) <=> SaidRetryable(error)
    /\ \A j \in 1..Len(outcomes) :
          ~outcomes[j].ok =>
              /\ Retried(j) => SaidRetryable(outcomes[j].err)
              /\ (SaidRetryable(outcomes[j].err) /\ j <= rMaxRetries) => Retried(j)
              /\ ~SaidRetryable(outcomes[j].err) =>
                    j = Len(outcomes) /\ rpc = "thrown" /\ rResult.err = outcomes[j].err

\* C12 witness: a transport failure was retried, then a 502 was thrown with
\* two retries left.
C12_Witness ==
    /\ rMaxRetries = 3
    /\ rpc = "thrown"
    /\ Len(outcomes) = 2
    /\ outcomes[1] = Failure(NetworkError)
    /\ rResult.err = HttpError(502)

\* base(n) = min(initialDelayMs * backoffMultiplier^n, maxDelayMs)
Base(n) ==
    LET raw == rOptions.initialDelayMs * Pow(rOptions.backoffMultiplier, n)
    IN  IF raw > rOptions.maxDelayMs THEN rOptions.maxDelayMs ELSE raw

\* C13: the sleep after failed attempt n (n = 0 for the first) lasts base(n)
\* plus a jitter between 0 and a quarter of base(n); base(n) never exceeds
\* maxDelayMs and is non-decreasing in n; the wait lies between base(n) and
\* 1.25 * base(n).
C13_BackoffDelay ==
    lastDelay.n >= 0 =>
        /\ lastDelay.n = IF rpc = "sleep" THEN Len(outcomes) - 1 ELSE sleeps - 1
        /\ rpc = "sleep" => lastDelay.n = attempt /\ lastDelay.n = sleeps
        /\ Base(lastDelay.n) <= rOptions.maxDelayMs
        /\ \A m \in 0..(lastDelay.n - 1) : Base(m) <= Base(m + 1)
        /\ lastDelay.delay >= Base(lastDelay.n)
        /\ 4 * (lastDelay.delay - Base(lastDelay.n)) <= Base(lastDelay.n)
        /\ 4 * lastDelay.delay <= 5 * Base(lastDelay.n)
        /\ rOptions = DefaultRetryOptions =>
              Base(lastDelay.n) = 1000 * Pow(2, lastDelay.n)

\* C13 witness: with maxDelayMs = 25 the sleep after the third failed
\* attempt had its base capped at 25 and lasted longer than 25.
C13_Witness ==
    /\ rOptions.maxDelayMs = 25
    /\ rpc = "sleep"
    /\ lastDelay.n = 2
    /\ Base(2) = 25
    /\ lastDelay.delay > 25

-----------------------------------------------------------------------------
(* Claims about one invocation's run orchestration, checked under Spec *)

\* positions of the log holding an event of this name
Positions(name) == {j \in 1..Len(log) : log[j].ev = name}

\* number of remote calls of this name that succeeded
Succeeded(name) == Cardinality({j \in Positions(name) : log[j].ok})

\* the k-th status fetch of the invocation is the log entry at position j
IsKthFetch(k, j) ==
    /\ j \in Positions("fetch_status")
    /\ Cardinality({h \in Positions("fetch_status") : h <= j}) = k

\* the iteration budget, characterised without Ceil: the least n >= 0 with
\* n * interval >= timeout, which is max(0, ceil(timeout / interval))
Budget ==
    CHOOSE n \in 0..(MaxPollBudget + 1) :
        /\ n * POLL_INTERVAL_MS >= pollTimeoutMs
        /\ n > 0 => (n - 1) * POLL_INTERVAL_MS < pollTimeoutMs

\* the statuses that end the polling loop
EndingStatuses == {"completed", "failed", "cancelled", "expired"}

\* the statuses the loop polls through
TransientStatuses == {"queued", "in_progress", "requires_action", "cancelling"}

\* C1: when the k-th status fetch, k within the budget, is the first to
\* return completed, failed, cancelled or expired, it is the last poll step:
\* no sleep and no status fetch follows it.  On completed the polling ends in
\* success (the invocation goes on to read the reply, no run-failure and no
\* timeout error); on failed, cancelled or expired the invocation ends at
\* once with a run-failure error naming that status and carrying last_error
\* when the response had one.
C1_TerminalStatusEndsPolling ==
    \A j \in Positions("fetch_status") :
        (log[j].ok /\ log[j].status \in EndingStatuses) =>
            /\ \E k \in 1..Budget : IsKthFetch(k, j)
            /\ \A h \in (j + 1)..Len(log) : log[h].ev = "list_messages"
            /\ log[j].status = COMPLETED =>
                  /\ pc \in {"list_messages", "done"}
                  /\ outcome.kind \in {"none", "returned", "no_text", "remote_error"}
                  /\ pc = "done" => log[Len(log)].ev = "list_messages"
            /\ log[j].status # COMPLETED =>
                  /\ pc = "done"
                  /\ j = Len(log)
                  /\ outcome.kind = "run_failed"
                  /\ outcome.status = log[j].status
                  /\ outcome.details =
                        IF log[j].lastError # Null THEN log[j].lastError
                        ELSE "No error details"

\* C1 witness: the fetches returned queued, in_progress, completed and the
\* invocation returned the reply after exactly three status fetches.
C1_Witness ==
    /\ outcome = Returned
    /\ Cardinality(Positions("fetch_status")) = 3
    /\ \E j \in Positions("fetch_status") :
          IsKthFetch(3, j) /\ log[j].status = COMPLETED
    /\ \E j \in Positions("fetch_status") :
          IsKthFetch(1, j) /\ log[j].status = "queued"

\* the part of C2 that the code meets as stated: at most Budget status
\* fetches, each right after one poll sleep, and a transient status inside
\* the budget is followed by the next sleep
PollingShape ==
    /\ Cardinality(Positions("fetch_status")) <= Budget
    /\ \A j \in Positions("fetch_status") : j > 1 /\ log[j - 1].ev = "poll_sleep"
    /\ \A j \in Positions("poll_sleep") :
          IF j = Len(log) THEN pc = "fetch_status" ELSE log[j + 1].ev = "fetch_status"
    /\ \A j \in Positions("fetch_status") : \A k \in 1..Budget :
          (IsKthFetch(k, j) /\ log[j].ok /\ log[j].status \in TransientStatuses /\ k < Budget) =>
              IF j = Len(log) THEN pc = "poll_sleep" ELSE log[j + 1].ev = "poll_sleep"
    /\ outcome.kind = "timeout" =>
          Cardinality(Positions("fetch_status")) = Budget

\* the run was created and every fetch of the budget was made and returned
\* a status other than completed, failed, cancelled and expired
BudgetExhausted ==
    /\ Succeeded("create_run") = 1
    /\ Cardinality(Positions("fetch_status")) = Budget
    /\ \A j \in Positions("fetch_status") :
          log[j].ok /\ log[j].status \notin EndingStatuses

\* the status observed last: of the last fetch, else of the run creation
LastObserved == currentStatus

\* C2 as stated: at most ceil(timeout / interval) status fetches, each after
\* one sleep; transient statuses never end the loop; and whenever no fetch of
\* the budget returned completed, failed, cancelled or expired the
\* invocation raises the timeout error with the last status observed.
C2_Original ==
    /\ PollingShape
    /\ BudgetExhausted => outcome = TimeoutError(LastObserved) /\ pc = "done"

\* C2 amended: the budget is max(0, ceil(timeout / interval)), and with a
\* budget of zero, where no fetch is made, a run whose creation response
\* already reports completed does not time out (the invocation goes on to
\* read the reply); the rest as stated.
C2_PollBudgetAndTimeout ==
    /\ PollingShape
    /\ (BudgetExhausted /\ ~(Budget = 0 /\ LastObserved = COMPLETED)) =>
          outcome = TimeoutError(LastObserved) /\ pc = "done"
    /\ (BudgetExhausted /\ Budget = 0 /\ LastObserved = COMPLETED) =>
          outcome.kind \notin {"timeout", "run_failed"}

\* C2 witness: a budget of three, the fetches returned in_progress,
\* requires_action, cancelling, and the invocation timed out on cancelling.
C2_Witness ==
    /\ Budget = 3
    /\ pollTimeoutMs % POLL_INTERVAL_MS # 0
    /\ BudgetExhausted
    /\ outcome = TimeoutError("cancelling")
    /\ \E j \in Positions("fetch_status") : log[j].status = "requires_action"
    /\ \E j \in Positions("fetch_status") : log[j].status = "in_progress"

\* C3: no timeout error after a status fetch observed a terminal status
\* (completed, failed, cancelled, expired, incomplete), and no sleep and no
\* status fetch after it either.
C3_NoTimeoutAfterTerminal ==
    \A j \in Positions("fetch_status") :
        (log[j].ok /\ log[j].status \in TERMINAL_RUN_STATUSES) =>
            /\ outcome.kind # "timeout"
            /\ pc \notin {"poll_sleep", "fetch_status"}
            /\ \A h \in (j + 1)..Len(log) : log[h].ev \notin {"poll_sleep", "fetch_status"}

\* the thread was resolved, the message posted and the run created
PollingBegun ==
    \/ Positions("poll_sleep") # {}
    \/ outcome.kind \in {"timeout", "run_failed", "returned", "no_text"}
    \/ pc \in {"poll_sleep", "fetch_status", "list_messages"}

\* C4: an invocation never makes a second successful thread creation,
\* message post or run creation, and none of a thread when the tool had one
\* cached; once polling has begun it has created exactly one thread (none
\* with a cached one), posted exactly one message and created exactly one
\* run; a run-failure or timeout error ends it with nothing after the
\* status fetch (or run creation) that caused it.
C4_OneThreadMessageRun ==
    /\ Succeeded("create_thread") <= 1
    /\ Succeeded("post_message") <= 1
    /\ Succeeded("create_run") <= 1
    /\ hadThread => Positions("create_thread") = {}
    /\ PollingBegun =>
          /\ Succeeded("create_thread") = IF hadThread THEN 0 ELSE 1
          /\ Succeeded("post_message") = 1
          /\ Succeeded("create_run") = 1
    /\ outcome.kind \in {"run_failed", "timeout"} =>
          /\ pc = "done"
          /\ log[Len(log)].ev \in {"fetch_status", "create_run"}
          /\ log[Len(log)].ok
          /\ Cardinality(Positions("post_message")) = 1
          /\ Cardinality(Positions("create_run")) = 1
          /\ Positions("list_messages") = {}

\* C4 witness: a tool with a cached thread was invoked, its second status
\* fetch returned failed, and the invocation ended with the run failure.
C4_Witness ==
    /\ hadThread
    /\ outcome.kind = "run_failed"
    /\ outcome.status = "failed"
    /\ Cardinality(Positions("fetch_status")) = 2

Rank(name) ==
    CASE name = "create_thread" -> 1
      [] name = "post_message" -> 2
      [] name = "create_run" -> 3
      [] name = "poll_sleep" -> 4
      [] name = "fetch_status" -> 4
      [] name = "list_messages" -> 5

\* C5: the remote calls of an invocation come in the order thread creation
\* (when none is cached), message post, run creation, status fetches,
\* message listing; a call is issued only when the one before it succeeded,
\* and the messages are listed only with completed as the last status.
C5_CallOrder ==
    /\ \A h, j \in 1..Len(log) : h < j => Rank(log[h].ev) <= Rank(log[j].ev)
    /\ \A j \in 1..Len(log) : j < Len(log) => log[j].ok
    /\ \A j \in 1..Len(log) : ~log[j].ok => pc = "done" /\ outcome.kind = "remote_error"
    /\ \A name \in {"create_thread", "post_message", "create_run", "list_messages"} :
          Cardinality(Positions(name)) <= 1
    /\ \A j \in Positions("post_message") :
          IF hadThread THEN j = 1 ELSE j = 2 /\ log[1].ev = "create_thread"
    /\ \A j \in Positions("create_run") : j > 1 /\ log[j - 1].ev = "post_message"
    /\ \A j \in Positions("poll_sleep") :
          log[j - 1].ev \in {"create_run", "fetch_status"}
    /\ \A j \in Positions("list_messages") :
          /\ log[j - 1].ev \in {"create_run", "fetch_status"}
          /\ log[j - 1].ev = "fetch_status" => log[j - 1].status = COMPLETED
    /\ (pc = "list_messages" \/ Positions("list_messages") # {}) =>
          currentStatus = COMPLETED
    /\ pc = "post_message" => hadThread \/ Succeeded("create_thread") = 1
    /\ pc = "create_run" => Succeeded("post_message") = 1
    /\ pc \in {"poll_sleep", "fetch_status"} => Succeeded("create_run") = 1

\* C5 witness: a full invocation on a new thread: thread creation, message
\* post, run creation, two polls, message listing, in this order.
C5_Witness ==
    /\ outcome = Returned
    /\ Len(log) = 8
    /\ log[1].ev = "create_thread"
    /\ log[2].ev = "post_message"
    /\ log[3].ev = "create_run"
    /\ log[4].ev = "poll_sleep"
    /\ log[5].ev = "fetch_status"
    /\ log[6].ev = "poll_sleep"
    /\ log[7].ev = "fetch_status"
    /\ log[8].ev = "list_messages"

-----------------------------------------------------------------------------
(* Claims about the documents of an invocation, checked under SpecFiles *)

\* the absolute path is the working directory or lies below it
InsideWorkingDirectory(absolutePath) ==
    \/ absolutePath = workingDirectory
    \/ StartsWith(absolutePath, Append(workingDirectory, "/"))

\* the promises of the batch for which a file read or an upload request was
\* started
Transferring == {i \in DOMAIN tasks : tasks[i].up \in {"reading", "uploading", "uploaded"}}

\* C14: a path whose resolved absolute path is neither the working directory
\* nor below it (a sibling directory whose name begins with the working
\* directory's name included) is rejected: no file is read and no upload
\* request is made for it, by the invocation or in the background, and no
\* such path enters the upload registry.
C14_OutsideRejected ==
    /\ \A i \in Transferring : InsideWorkingDirectory(tasks[i].abs)
    /\ \A absolutePath \in orphans : InsideWorkingDirectory(absolutePath)
    /\ \A j \in 1..Len(uploadedFileIdByPath) :
          InsideWorkingDirectory(uploadedFileIdByPath[j].k)

\* C15: an invocation that fails with the validation error of a path outside
\* the working directory has attempted no remote call: its log holds no
\* thread creation, no vector store creation, no message post and no run.
C15_ValidationBeforeRemote == outcome = ValidationError => log = <<>>

\* the promises of the batch for which an upload request was made
Requested == {i \in DOMAIN tasks : tasks[i].up \in {"uploading", "uploaded"}}

\* C16: each resolved absolute path is uploaded at most once: no two upload
\* requests of a batch are for the same absolute path, and every use of a
\* path in a batch has the same file id.
C16_UploadedOnce ==
    /\ \A i, j \in Requested : tasks[i].abs = tasks[j].abs => i = j
    /\ \A i, j \in DOMAIN tasks :
          (tasks[i].abs = tasks[j].abs /\ tasks[i].id # 0 /\ tasks[j].id # 0) =>
              tasks[i].id = tasks[j].id

\* the registry entry at position j is still there, with the same file id,
\* after the step
EntryKept(j) ==
    /\ MapHas(uploadedFileIdByPath', uploadedFileIdByPath[j].k)
    /\ MapGet(uploadedFileIdByPath', uploadedFileIdByPath[j].k) = uploadedFileIdByPath[j].v

\* the step sets a new key on a full registry, which evicts the oldest entry
EvictionStep ==
    /\ Len(uploadedFileIdByPath) >= MAX_CACHE_SIZE
    /\ \E j \in 1..Len(uploadedFileIdByPath') :
          ~MapHas(uploadedFileIdByPath, uploadedFileIdByPath'[j].k)

\* C17: an entry of the upload registry, once present, is neither removed
\* nor given another file id by any step other than reset-all or an
\* eviction.
C17_EntriesStable ==
    [][ResetAll \/ EvictionStep \/ \A j \in 1..Len(uploadedFileIdByPath) : EntryKept(j)]_vars

\* the invocation is past ensureFilesInVectorStore, in runAssistantOnThread
InRun == pc \in {"post_message", "create_run", "poll_sleep", "fetch_status", "list_messages"}

\* C18: an attach request that fails with 409 is not retried (withRetry gives
\* up on it at every attempt), its promise is fulfilled like that of a
\* successful attach, so the invocation never fails with a 409 of an attach,
\* and when the other attaches are fulfilled too the invocation goes on to
\* the message post and the run with the vector store of the tool.
C18_ConflictIsSuccess ==
    /\ \A att \in 0..MAX_RETRIES : WithRetryGivesUp(att, MAX_RETRIES, HttpError(CONFLICT))
    /\ outcome.err # HttpError(CONFLICT)
    /\ \A i \in DOMAIN tasks :
          tasks[i].at = "conflict" => swallowed /\ pc = "attaches" /\ outcome = NoOutcome
    /\ (swallowed /\ (InRun \/ Positions("post_message") # {})) => vectorStoreId # 0
    /\ (swallowed /\ pc = "done") =>
          \/ outcome.kind = "attach_error" /\ outcome.err \in CallErrors
          \/ Positions("post_message") # {}

\* C18 witness: an attach of the invocation ended in a 409 and the invocation
\* returned the assistant's reply, the run made with the tool's vector store.
C18_Witness ==
    /\ swallowed
    /\ pc = "done"
    /\ outcome = Returned
    /\ Succeeded("create_run") = 1
    /\ vectorStoreId # 0

\* the paths and the file ids the upload registry holds
RegistryPaths == {uploadedFileIdByPath[j].k : j \in 1..Len(uploadedFileIdByPath)}
RegistryIds == {uploadedFileIdByPath[j].v : j \in 1..Len(uploadedFileIdByPath)}

\* an invocation that failed in an attach is over, and has posted no message
\* and created no run
AttachFailureEndsInvocation ==
    outcome.kind = "attach_error" =>
        /\ pc = "done"
        /\ outcome.err \in CallErrors
        /\ Positions("post_message") = {}
        /\ Positions("create_run") = {}

\* a path uploaded by an invocation that failed in an attach is cached when a
\* later batch names it: no file read and no upload request is made for it
NoUploadAfterAttachFailure ==
    \A i \in DOMAIN tasks : tasks[i].known # "-" => tasks[i].up = "cached" /\ tasks[i].id # 0

C20_ThreadReused ==
    (pc # "idle" /\ knownAtStart # 0) =>
        /\ hadThread
        /\ threadId = knownAtStart
        /\ pc # "create_thread"
        /\ Positions("create_thread") = {}

\* C20 witness: an earlier invocation of the tool created or reused the
\* thread and failed in an attach; the next invocation of the tool is
\* attaching the cached file on the thread first created for the tool.
C20_Witness ==
    /\ knownAtStart # 0
    /\ threadId = knownAtStart
    /\ pc = "attaches"
    /\ \E i \in DOMAIN tasks : tasks[i].known = toolName

-----------------------------------------------------------------------------
(* Claims about overlapping invocations and reset flags, checked under      *)
(* SpecConc                                                                 *)

\* C21: between resets of a tool's entries at most one thread and at most one
\* vector store are created for the tool, and every invocation of the tool
\* in flight that no reset has crossed posts its message to the thread, and
\* attaches its file to the vector store, that the registry holds for the
\* tool.
C21_OneLiveThreadAndIndex ==
    /\ \A tool \in Tools :
          /\ Cardinality(made[tool].threads) <= 1
          /\ Cardinality(made[tool].stores) <= 1
    /\ \A i \in InFlight :
          ~inv[i].crossed =>
              /\ inv[i].pc = "post_message" =>
                    inv[i].threadId = StoreOf(threadByTool, inv[i].tool)
              /\ inv[i].pc = "attach" =>
                    inv[i].vectorStoreId = StoreOf(vectorStoreByTool, inv[i].tool)

\* the invocations in flight whose thread, or vector store, is resolved
ThreadResolved == {i \in InFlight : inv[i].threadId # 0}
RunRequested == {i \in InFlight : inv[i].pc = "create_run"}

\* an invocation starts in this step
Starts(i) == inv[i].pc \in {"idle", "done"} /\ inv'[i].pc \notin {"idle", "done"}

\* with reset_thread the thread of the invocation was created after the flag
\* was applied and is not the one the registry held before
ResetThreadTakesEffect ==
    \A i \in ThreadResolved :
        inv[i].reset_thread =>
            /\ inv[i].threadId # inv[i].prevThread
            /\ inv[i].threadId \in made[inv[i].tool].threads

\* with reset_files the run never names the vector store the registry held
\* before, and with files it names one created after the flag was applied
ResetFilesTakesEffect ==
    \A i \in RunRequested :
        inv[i].reset_files =>
            /\ \A j \in 1..Len(inv[i].runStores) :
                  /\ inv[i].runStores[j] # inv[i].prevStore
                  /\ inv[i].runStores[j] \in made[inv[i].tool].stores
            /\ inv[i].files # <<>> => Len(inv[i].runStores) = 1

\* a reset flag leaves the registry of the other flag as it is
FlagsIndependent ==
    \A i \in Invocations :
        Starts(i) =>
            /\ ~inv'[i].reset_files => vectorStoreByTool' = vectorStoreByTool
            /\ ~inv'[i].reset_thread => threadByTool' = threadByTool

\* C22 as stated: with reset_thread the invocation runs on a thread created
\* during the invocation, never the previously cached one; with reset_files
\* the previously cached vector store is never named by the run, which names
\* a new one when files are given and none otherwise; each flag leaves the
\* other registry unchanged.
C22_Original ==
    /\ [](ResetThreadTakesEffect /\ ResetFilesTakesEffect)
    /\ [](\A i \in RunRequested :
              inv[i].reset_files /\ inv[i].files = <<>> => inv[i].runStores = <<>>)
    /\ [][FlagsIndependent]_vars

\* C22 (amended): as stated, except that with reset_files and no files the
\* run names no vector store or one that an overlapping invocation of the
\* tool created after the flag was applied.
C22_ResetBeforeResolve ==
    /\ [](ResetThreadTakesEffect /\ ResetFilesTakesEffect)
    /\ [][FlagsIndependent]_vars

\* an invocation with both flags, started with a thread and a vector store
\* cached, has requested its run
C22_Witness ==
    \E i \in RunRequested :
        /\ inv[i].reset_thread /\ inv[i].reset_files
        /\ inv[i].prevThread # 0 /\ inv[i].prevStore # 0
        /\ inv[i].files # <<>>

\* an invocation with reset_files and no files runs with the vector store of
\* an overlapping invocation
C22_Overlap ==
    \E i \in RunRequested :
        inv[i].reset_files /\ inv[i].files = <<>> /\ inv[i].runStores # <<>>

-----------------------------------------------------------------------------
(* Claims about the message, the run and the utility tools, checked under   *)
(* SpecTools                                                                *)

\* C23: the run request names a vector store exactly when the tool has one
\* (reset-all not having run since the invocation started): the one the
\* document pipeline returned when files are given, otherwise the cached
\* one; and an invocation given no files never creates a vector store and
\* never uploads or attaches a document.
C23_RunNamesIndex ==
    /\ \A i \in RunRequested :
          /\ ~inv[i].crossed =>
                inv[i].runStores = RunBody(StoreOf(vectorStoreByTool, inv[i].tool))
          /\ inv[i].files # <<>> =>
                inv[i].vectorStoreId # 0 /\ inv[i].runStores = <<inv[i].vectorStoreId>>
    /\ \A i \in InFlight :
          inv[i].files = <<>> =>
              /\ inv[i].pc \notin {"create_vector_store", "upload", "attach"}
              /\ inv[i].fileId = 0

\* runs were requested with the vector store of the pipeline, with the cached
\* vector store, and with none
C23_Witness ==
    \E i \in RunRequested :
        /\ inv[i].files = <<>>
        /\ inv[i].runStores # <<>>
        /\ ~inv[i].crossed

C23_WitnessNone ==
    \E i \in RunRequested :
        inv[i].files = <<>> /\ inv[i].runStores = <<>> /\ inv[i].reset_files
            /\ inv[i].prevStore # 0

-----------------------------------------------------------------------------
(* SpecMessage: the message a specialist tool posts, built from the         *)
(* arguments of one invocation.  Strings are sequences of characters (or of *)
(* longer pieces); an optional string is a record saying whether it was     *)
(* given.                                                                   *)

Absent == [given |-> FALSE, value |-> <<>>]
Given(value) == [given |-> TRUE, value |-> value]

\* JavaScript truthiness of an optional string: undefined and "" are falsy
Truthy(optional) == optional.given /\ optional.value # <<>>

\* the text between context and prompt: "\n\n---\n\n"
Separator == <<"\n", "\n", "-", "-", "-", "\n", "\n">>

\* mutant of CombinedMessage: the context is dropped
CombinedMessage_PromptOnly(context, prompt) == prompt

\* const combinedMessage = context ? `${context}\n\n---\n\n${prompt}` : prompt
CombinedMessage(context, prompt) ==
    IF Truthy(context) THEN context.value \o Separator \o prompt ELSE prompt

\* the handler's totalImageCount; an absent array counts as an empty one
TotalImageCount(r) == Len(r.image_urls) + Len(r.image_files) + Len(r.image_base64)

\* imageOptions?.detail ?? "auto"; imageOptions is undefined when the
\* invocation has no image
Detail(r) ==
    IF TotalImageCount(r) > 0 /\ r.image_detail # "undefined" THEN r.image_detail
    ELSE "auto"

\* the data URL of a base64 image, its type taken from the first characters
MimeType(base64Data) ==
    IF StartsWith(base64Data, <<"/", "9", "j", "/">>) THEN "image/jpeg"
    ELSE IF StartsWith(base64Data, <<"R", "0", "l", "G", "O", "D">>) THEN "image/gif"
    ELSE IF StartsWith(base64Data, <<"U", "k", "l", "G", "R">>) THEN "image/webp"
    ELSE "image/png"

DataUrl(base64Data) == <<"data:", MimeType(base64Data), ";base64,">> \o base64Data

\* the content parts of the image URLs, of the uploaded image files and of
\* the base64 images
UrlParts(urls, detail) ==
    [j \in 1..Len(urls) |-> [type |-> "image_url", url |-> urls[j], detail |-> detail]]

FileParts(fileIds, detail) ==
    [j \in 1..Len(fileIds) |->
        [type |-> "image_file", file_id |-> fileIds[j], detail |-> detail]]

Base64Parts(base64Images, detail) ==
    [j \in 1..Len(base64Images) |->
        [type |-> "image_url", url |-> DataUrl(base64Images[j]), detail |-> detail]]

\* mutant of MessageContent: the text part comes first
MessageContent_TextFirst(r, fileIds, userMessage) ==
    <<[type |-> "text", text |-> userMessage]>>
        \o UrlParts(r.image_urls, Detail(r)) \o FileParts(fileIds, Detail(r))
        \o Base64Parts(r.image_base64, Detail(r))

\* runAssistantOnThread, step 1: the content array of the message
MessageContent(r, fileIds, userMessage) ==
    UrlParts(r.image_urls, Detail(r)) \o FileParts(fileIds, Detail(r))
        \o Base64Parts(r.image_base64, Detail(r))
        \o <<[type |-> "text", text |-> userMessage]>>

\* the arguments the invocations of this specification are given
UrlLists == {<<>>, <<<<"https://h/1.png">>>>, <<<<"https://h/1.png">>, <<"https://h/2.png">>>>}
ImageFileLists == {<<>>, <<PathPng>>}
JpegData == <<"/", "9", "j", "/", "4">>
GifData == <<"R", "0", "l", "G", "O", "D", "l">>
PngData == <<"i", "V", "B">>
Base64Lists == {<<>>, <<JpegData>>, <<PngData, GifData>>}
ImageDetails == {"undefined", "auto", "low", "high"}
Contexts == {Absent, Given(<<>>), Given(<<"c">>)}
Prompts == {<<"p">>}

\* the file id uploadImagesForVision returns for the j-th image file
VisionFileId(j) == <<"file-", j>>

MsgInit ==
    /\ ServerIdle
    /\ CacheIdle
    /\ RetryIdle
    /\ ConcIdle
    /\ ReplyIdle
    /\ ProcIdle
    /\ \E image_urls \in UrlLists, image_files \in ImageFileLists,
          image_base64 \in Base64Lists, image_detail \in ImageDetails,
          context \in Contexts, prompt \in Prompts :
            composed = [pc |-> "called", image_urls |-> image_urls,
                        image_files |-> image_files, image_base64 |-> image_base64,
                        image_detail |-> image_detail, context |-> context,
                        prompt |-> prompt, fileIds |-> <<>>, content |-> <<>>]

\* uploadImagesForVision returned: one file id per image file, in order
ImagesUploaded ==
    /\ composed.pc = "called"
    /\ composed' = [composed EXCEPT
                      !.pc = "uploaded",
                      !.fileIds = [j \in 1..Len(composed.image_files) |-> VisionFileId(j)]]
    /\ UNCHANGED <<cacheVars, retryVars, serverVars, concVars, replyVars, procVars>>

\* the handler combines context and prompt and runAssistantOnThread builds
\* the content it posts
MessagePosted ==
    /\ composed.pc = "uploaded"
    /\ composed' = [composed EXCEPT
                      !.pc = "posted",
                      !.content = MessageContent(composed, composed.fileIds,
                                     CombinedMessage(composed.context, composed.prompt))]
    /\ UNCHANGED <<cacheVars, retryVars, serverVars, concVars, replyVars, procVars>>

MsgNext == ImagesUploaded \/ MessagePosted

SpecMessage == MsgInit /\ [][MsgNext]_vars

\* the image parts of the posted content
ImageParts == SubSeq(composed.content, 1, Len(composed.content) - 1)

\* the posted content has one image part per URL, per uploaded image file
\* and per base64 image, in that order, followed by exactly one text part,
\* and every image part carries the detail given, "auto" when none was given
ContentShape ==
    LET nUrls == Len(composed.image_urls)
        nFiles == Len(composed.image_files)
        nBase64 == Len(composed.image_base64)
    IN  /\ Len(composed.content) = nUrls + nFiles + nBase64 + 1
        /\ composed.content[Len(composed.content)].type = "text"
        /\ \A j \in 1..Len(ImageParts) :
              /\ ImageParts[j].type \in {"image_url", "image_file"}
              /\ ImageParts[j].detail = IF composed.image_detail = "undefined"
                                        THEN "auto" ELSE composed.image_detail
        /\ \A j \in 1..nUrls :
              /\ ImageParts[j].type = "image_url"
              /\ ImageParts[j].url = composed.image_urls[j]
        /\ \A j \in 1..nFiles :
              /\ ImageParts[nUrls + j].type = "image_file"
              /\ ImageParts[nUrls + j].file_id = composed.fileIds[j]
        /\ \A j \in 1..nBase64 :
              LET part == ImageParts[nUrls + nFiles + j]
                  data == composed.image_base64[j]
              IN  /\ part.type = "image_url"
                  /\ Len(part.url) > Len(data)
                  /\ SubSeq(part.url, Len(part.url) - Len(data) + 1, Len(part.url)) = data

\* C24 as stated: the content has the shape above, and the text part is the
\* prompt alone when no context is given, and context, separator, prompt
\* otherwise.
C24_Original ==
    composed.pc = "posted" =>
        /\ ContentShape
        /\ composed.content[Len(composed.content)].text =
              IF composed.context.given
              THEN composed.context.value \o Separator \o composed.prompt
              ELSE composed.prompt

\* C24 (amended): the content has the shape above, and the text part is the
\* prompt alone when no context or an empty context is given, and context,
\* separator, prompt otherwise.
C24_MessageShape ==
    composed.pc = "posted" =>
        /\ ContentShape
        /\ composed.content[Len(composed.content)].text =
              IF composed.context.given /\ composed.context.value # <<>>
              THEN composed.context.value \o Separator \o composed.prompt
              ELSE composed.prompt

\* a message with images of the three kinds, a detail and a context was posted
C24_Witness ==
    /\ composed.pc = "posted"
    /\ Len(composed.image_urls) = 2
    /\ composed.image_files # <<>>
    /\ Len(composed.image_base64) = 2
    /\ composed.image_detail = "high"
    /\ Truthy(composed.context)

\* a message was posted for an invocation given an empty context
C24_EmptyContext ==
    /\ composed.pc = "posted"
    /\ composed.context = Given(<<>>)

-----------------------------------------------------------------------------
(* Claims about the reply of a run, checked under Spec and SpecReply        *)

\* the message listing that succeeded is the last entry of the log
ListedLast ==
    /\ log # <<>>
    /\ log[Len(log)].ev = "list_messages"
    /\ log[Len(log)].ok

\* C25: once the messages are listed after a completed run, the invocation
\* fails with the no-text error exactly when the list is empty or its newest
\* message has no text part; the error ends the invocation: the listing was
\* answered once and is the last remote call of the invocation.
C25_NoTextNotRetried ==
    /\ (pc = "done" /\ ListedLast) =>
          LET data == MessagesOf(log[Len(log)].status)
          IN  outcome = NoTextError <=>
                  (data = <<>> \/ \A h \in 1..Len(data[1]) : data[1][h] # "text")
    /\ outcome = NoTextError =>
          /\ pc = "done"
          /\ ListedLast
          /\ Succeeded("list_messages") = 1
          /\ currentStatus = COMPLETED

\* the invocation failed with the no-text error although an older message
\* of the thread has a text part
C25_Witness ==
    /\ outcome = NoTextError
    /\ log[Len(log)].status = "image_then_text"

\* the invocation failed with the no-text error on an empty list
C25_WitnessEmpty ==
    /\ outcome = NoTextError
    /\ log[Len(log)].status = "no_message"

-----------------------------------------------------------------------------
(* SpecReply: what runAssistantOnThread returns for the text of the newest  *)
(* message.  A text is a sequence of tokens, a token being a punctuation    *)
(* mark, a string literal, a number or a bare word, each with its           *)
(* characters; JSON.parse is a recursive-descent parser over the tokens.    *)
(* The replies of the model have no accessibility_status, issues and        *)
(* context fields, so the sections formatStructuredResponse writes for      *)
(* these are left out.                                                      *)

Punct(c) == [t |-> "punct", v |-> <<c>>]
Str(chars) == [t |-> "str", v |-> chars]
Num(chars) == [t |-> "num", v |-> chars]
Word(chars) == [t |-> "word", v |-> chars]

\* the JSON values
JsonNull == [k |-> "null", v |-> <<>>]
JsonBool(chars) == [k |-> "boolean", v |-> chars]
JsonNumber(chars) == [k |-> "number", v |-> chars]
JsonString(chars) == [k |-> "string", v |-> chars]
JsonArray(elements) == [k |-> "array", v |-> elements]
JsonObject(members) == [k |-> "object", v |-> members]

ParseFailed == [ok |-> FALSE, val |-> JsonNull, rest |-> <<>>]
Parsed(val, rest) == [ok |-> TRUE, val |-> val, rest |-> rest]

IsPunct(ts, c) == ts # <<>> /\ Head(ts).t = "punct" /\ Head(ts).v = <<c>>

RECURSIVE ParseValue(_), MembersFrom(_, _), ElementsFrom(_, _)

\* one JSON value at the head of the tokens
ParseValue(ts) ==
    IF ts = <<>> THEN ParseFailed
    ELSE LET tok == Head(ts)
         IN  CASE tok.t = "str" -> Parsed(JsonString(tok.v), Tail(ts))
               [] tok.t = "num" -> Parsed(JsonNumber(tok.v), Tail(ts))
               [] tok.t = "word" ->
                    IF tok.v = <<"n", "u", "l", "l">> THEN Parsed(JsonNull, Tail(ts))
                    ELSE IF tok.v \in {<<"t", "r", "u", "e">>, <<"f", "a", "l", "s", "e">>}
                    THEN Parsed(JsonBool(tok.v), Tail(ts))
                    ELSE ParseFailed
               [] tok.t = "punct" ->
                    IF tok.v = <<"{">>
                    THEN IF IsPunct(Tail(ts), "}")
                         THEN Parsed(JsonObject(<<>>), Tail(Tail(ts)))
                         ELSE MembersFrom(Tail(ts), <<>>)
                    ELSE IF tok.v = <<"[">>
                    THEN IF IsPunct(Tail(ts), "]")
                         THEN Parsed(JsonArray(<<>>), Tail(Tail(ts)))
                         ELSE ElementsFrom(Tail(ts), <<>>)
                    ELSE ParseFailed

\* the members of an object, after "{" or ","
MembersFrom(ts, members) ==
    IF Len(ts) < 3 \/ ts[1].t # "str" \/ ~IsPunct(Tail(ts), ":") THEN ParseFailed
    ELSE LET value == ParseValue(SubSeq(ts, 3, Len(ts)))
             more == Append(members, [name |-> ts[1].v, value |-> value.val])
         IN  IF ~value.ok THEN ParseFailed
             ELSE IF IsPunct(value.rest, "}")
             THEN Parsed(JsonObject(more), Tail(value.rest))
             ELSE IF IsPunct(value.rest, ",") THEN MembersFrom(Tail(value.rest), more)
             ELSE ParseFailed

\* the elements of an array, after "[" or ","
ElementsFrom(ts, elements) ==
    LET value == ParseValue(ts)
        more == Append(elements, value.val)
    IN  IF ~value.ok THEN ParseFailed
        ELSE IF IsPunct(value.rest, "]") THEN Parsed(JsonArray(more), Tail(value.rest))
        ELSE IF IsPunct(value.rest, ",") THEN ElementsFrom(Tail(value.rest), more)
        ELSE ParseFailed

\* JSON.parse(text): a value and nothing after it, else a SyntaxError
JsonParse(text) ==
    LET r == ParseValue(text)
    IN  IF r.ok /\ r.rest = <<>> THEN r ELSE ParseFailed

\* value.name is defined: value is an object with a member of that name
HasField(value, name) ==
    /\ value.k = "object"
    /\ \E j \in 1..Len(value.v) : value.v[j].name = name

\* value.name, for an object with that member (the last one of that name)
Field(value, name) ==
    LET j == CHOOSE j \in 1..Len(value.v) :
                 /\ value.v[j].name = name
                 /\ \A h \in (j + 1)..Len(value.v) : value.v[h].name # name
    IN  value.v[j].value

\* JavaScript truthiness of a JSON value
TruthyJson(value) ==
    CASE value.k = "null" -> FALSE
      [] value.k = "boolean" -> value.v = <<"t", "r", "u", "e">>
      [] value.k = "number" -> value.v # <<"0">>
      [] value.k = "string" -> value.v # <<>>
      [] OTHER -> TRUE

NameMessage == <<"m", "e", "s", "s", "a", "g", "e">>
NameEmphasis == <<"e", "m", "p", "h", "a", "s", "i", "s", "_", "p", "o", "i", "n", "t", "s">>
NameWaiting == <<"w", "a", "i", "t", "i", "n", "g", "_", "f", "o", "r">>

\* mutant of Structured: any message field will do
Structured_AnyMessage(parsed) == HasField(parsed, NameMessage)

\* parsed.message && typeof parsed.message === "string"; reading .message of
\* null throws a TypeError, which the catch block swallows like a SyntaxError
Structured(parsed) ==
    /\ HasField(parsed, NameMessage)
    /\ TruthyJson(Field(parsed, NameMessage))
    /\ Field(parsed, NameMessage).k = "string"

\* String.prototype.replace(/_/g, " ")
ReplaceUnderscores(chars) ==
    [j \in 1..Len(chars) |-> IF chars[j] = "_" THEN " " ELSE chars[j]]

\* a piece of formatted text
Text(chars) == [t |-> "text", v |-> chars]

\* Array.prototype.join("\n") over pieces of text
RECURSIVE JoinLines(_)
JoinLines(parts) ==
    IF parts = <<>> THEN <<>>
    ELSE IF Len(parts) = 1 THEN parts[1]
    ELSE parts[1] \o <<Text(<<"\n">>)>> \o JoinLines(Tail(parts))

\* the lines formatStructuredResponse writes for emphasis_points
EmphasisLines(response) ==
    IF HasField(response, NameEmphasis)
          /\ Field(response, NameEmphasis).k = "array"
          /\ Field(response, NameEmphasis).v # <<>>
    THEN LET points == Field(response, NameEmphasis).v
         IN  <<<<Text(<<"\n", "## Key Points for Development">>)>>>>
                 \o [j \in 1..Len(points) |-> <<Text(<<"- ">>), Text(points[j].v)>>]
    ELSE <<>>

\* the lines formatStructuredResponse writes for waiting_for
WaitingLines(response) ==
    IF HasField(response, NameWaiting)
          /\ TruthyJson(Field(response, NameWaiting))
          /\ ~(Field(response, NameWaiting).k = "string"
                  /\ Field(response, NameWaiting).v = <<"n", "o", "t", "h", "i", "n", "g">>)
    THEN <<<<Text(<<"\n", "---", "\n", "*Waiting for: ">>),
             Text(ReplaceUnderscores(Field(response, NameWaiting).v)), Text(<<"*">>)>>>>
    ELSE <<>>

\* mutant of FormatStructuredResponse: the message comes last
FormatStructuredResponse_MessageLast(response) ==
    JoinLines(EmphasisLines(response) \o WaitingLines(response)
                  \o <<<<Text(Field(response, NameMessage).v)>>>>)

\* formatStructuredResponse(parsed), for a response with a truthy message
FormatStructuredResponse(response) ==
    JoinLines(<<<<Text(Field(response, NameMessage).v)>>>>
                  \o EmphasisLines(response) \o WaitingLines(response))

\* the texts of the model: objects made of a message member, an
\* emphasis_points member and a waiting_for member, each present or not,
\* with or without the closing brace, and texts that are no object
MessageMembers ==
    {<<>>,
     <<Str(NameMessage), Punct(":"), Str(<<"h", "i">>)>>,
     <<Str(NameMessage), Punct(":"), Str(<<>>)>>,
     <<Str(NameMessage), Punct(":"), Num(<<"1">>)>>,
     <<Str(NameMessage), Punct(":"), Word(<<"n", "u", "l", "l">>)>>,
     <<Str(NameMessage), Punct(":"), Punct("{"), Punct("}")>>}

EmphasisMembers ==
    {<<>>,
     <<Str(NameEmphasis), Punct(":"), Punct("["), Punct("]")>>,
     <<Str(NameEmphasis), Punct(":"), Punct("["), Str(<<"a">>), Punct(","),
       Str(<<"b">>), Punct("]")>>}

WaitingMembers ==
    {<<>>,
     <<Str(NameWaiting), Punct(":"), Str(<<"n", "o", "t", "h", "i", "n", "g">>)>>,
     <<Str(NameWaiting), Punct(":"), Str(<<"u", "_", "x">>)>>}

\* the members that are present, separated by commas
RECURSIVE Commas(_)
Commas(members) ==
    IF members = <<>> THEN <<>>
    ELSE IF Head(members) = <<>> THEN Commas(Tail(members))
    ELSE LET rest == Commas(Tail(members))
         IN  IF rest = <<>> THEN Head(members) ELSE Head(members) \o <<Punct(",")>> \o rest

ObjectText(members, closed) ==
    <<Punct("{")>> \o Commas(members) \o (IF closed THEN <<Punct("}")>> ELSE <<>>)

OtherTexts ==
    {<<Word(<<"H", "e", "l", "l", "o">>), Word(<<"t", "h", "e", "r", "e">>)>>,
     <<Word(<<"n", "u", "l", "l">>)>>,
     <<Num(<<"4", "2">>)>>,
     <<Str(NameMessage)>>,
     <<Punct("["), Str(NameMessage), Punct("]")>>,
     <<>>}

NoParsed == [k |-> "none", v |-> <<>>]

ReplyInit ==
    /\ ServerIdle
    /\ CacheIdle
    /\ RetryIdle
    /\ ConcIdle
    /\ MsgIdle
    /\ ProcIdle
    /\ \E rawResponse \in
            OtherTexts \cup
            {ObjectText(<<m, e, w>>, closed) :
                m \in MessageMembers, e \in EmphasisMembers, w \in WaitingMembers,
                closed \in BOOLEAN} :
          reply = [pc |-> "raw", rawResponse |-> rawResponse, parsed |-> NoParsed,
                   structured |-> FALSE, out |-> <<>>]

\* JSON.parse(rawResponse) and the test of parsed.message; a SyntaxError or
\* TypeError is caught and the raw text is returned
ReplyParsed ==
    /\ reply.pc = "raw"
    /\ LET r == JsonParse(reply.rawResponse)
       IN  reply' = IF r.ok /\ Structured(r.val)
                    THEN [reply EXCEPT !.pc = "parsed", !.parsed = r.val,
                                       !.structured = TRUE]
                    ELSE [reply EXCEPT !.pc = "returned",
                                       !.parsed = IF r.ok THEN r.val ELSE NoParsed,
                                       !.out = reply.rawResponse]
    /\ UNCHANGED <<cacheVars, retryVars, serverVars, concVars, msgVars, procVars>>

\* return formatStructuredResponse(parsed)
ReplyFormatted ==
    /\ reply.pc = "parsed"
    /\ reply' = [reply EXCEPT !.pc = "returned",
                              !.out = FormatStructuredResponse(reply.parsed)]
    /\ UNCHANGED <<cacheVars, retryVars, serverVars, concVars, msgVars, procVars>>

ReplyNext == ReplyParsed \/ ReplyFormatted

SpecReply == ReplyInit /\ [][ReplyNext]_vars

\* the text parses as JSON and the value has a member "message" that is a
\* string
HasStringMessage(text) ==
    LET r == JsonParse(text)
    IN  /\ r.ok
        /\ HasField(r.val, NameMessage)
        /\ Field(r.val, NameMessage).k = "string"

\* C26: a reply text that does not parse as JSON, or whose value has no
\* string member "message", is returned unchanged; a text is reformatted only
\* if it parses as JSON with a string member "message", and the formatted
\* text begins with that message.
C26_RawUnlessStructured ==
    reply.pc = "returned" =>
        /\ ~HasStringMessage(reply.rawResponse) => reply.out = reply.rawResponse
        /\ reply.structured =>
              /\ HasStringMessage(reply.rawResponse)
              /\ reply.out # <<>>
              /\ reply.out[1] = Text(Field(JsonParse(reply.rawResponse).val, NameMessage).v)

\* a reply with a message, key points and a waiting_for member was formatted
C26_Witness ==
    /\ reply.pc = "returned"
    /\ reply.structured
    /\ Len(reply.out) > 8

\* the reply null, a reply that is no JSON, and a reply whose message is a
\* number were returned unchanged
C26_WitnessRaw ==
    /\ reply.pc = "returned"
    /\ ~reply.structured
    /\ reply.parsed.k = "object"
    /\ HasField(reply.parsed, NameMessage)

-----------------------------------------------------------------------------
(* Claims about the utility tools, checked under SpecTools                  *)

RegistriesEmpty ==
    /\ threadByTool = <<>>
    /\ vectorStoreByTool = <<>>
    /\ uploadedFileIdByPath = <<>>
    /\ uploadedVisionFileIdByPath = <<>>

RegistriesUnchanged ==
    UNCHANGED <<threadByTool, vectorStoreByTool, uploadedFileIdByPath,
                uploadedVisionFileIdByPath>>

\* a confirmed reset-all leaves the four registries empty and reports the
\* sizes they had just before; a reset-all that is not confirmed changes none
ResetAllClears ==
    /\ report'.status = "reset" => RegistriesEmpty' /\ report'.counts = RegistrySizes
    /\ report'.status = "cancelled" => RegistriesUnchanged

\* the first invocation of a tool after a confirmed reset-all creates a thread
FreshToolCreates ==
    \A i \in Invocations :
        (Starts(i) /\ made[inv'[i].tool].fresh) => inv'[i].pc = "create_thread"

\* the first invocation of a tool after a confirmed reset-all creates a
\* thread, or runs on one created since the reset
FreshToolRunsOnNew ==
    \A i \in Invocations :
        (Starts(i) /\ made[inv'[i].tool].fresh) =>
            \/ inv'[i].pc = "create_thread"
            \/ inv'[i].threadId \in made[inv'[i].tool].threads

\* C27 as stated: a confirmed reset-all empties the four registries and
\* reports their sizes, an unconfirmed one changes nothing, and after a
\* confirmed reset the next invocation of any tool creates a new thread.
C27_Original == [][ResetAllClears /\ FreshToolCreates]_vars

\* C27 (amended): as stated, except that the next invocation of a tool
\* creates a new thread or runs on the one that an invocation in flight at
\* the reset has created since.
C27_ResetAll == [][ResetAllClears /\ FreshToolRunsOnNew]_vars

\* a confirmed reset-all has just emptied four registries that held entries
C27_Witness ==
    /\ report.status = "reset"
    /\ report.counts[1] = 2
    /\ \A j \in 2..4 : report.counts[j] = 1
    /\ RegistriesEmpty

\* the thread an invocation created across a reset-all is in the registry,
\* and the tool has not been invoked since
C27_Survivor ==
    \E tool \in Tools :
        /\ made[tool].fresh
        /\ MapHas(threadByTool, tool)
        /\ inv[1].pc = "done"

\* a step of the health check or of list-status
ProbeStep ==
    \/ health' # health
    \/ report'.tool \in {"check_openai_connection", "list_specialists_status"}

\* C28: the health check makes one call of the model-list endpoint (its
\* requests being those of the retry policy) and always returns a result:
\* "healthy" exactly when the call succeeded and "unhealthy" when it failed;
\* neither the health check nor list-status changes a registry.
C28_HealthCheck ==
    /\ [](report.tool = "check_openai_connection" =>
              /\ report.status \in {"healthy", "unhealthy"}
              /\ report.status = "healthy" <=> report.call = "resolved"
              /\ report.status = "unhealthy" <=> report.call = "rejected"
              /\ report.counts[1] \in 1..(MAX_RETRIES + 1)
              /\ health = -1)
    /\ [][ProbeStep => RegistriesUnchanged]_vars

\* the health check reported unhealthy after its retries, with registries
\* that hold entries
C28_Witness ==
    /\ report.tool = "check_openai_connection"
    /\ report.status = "unhealthy"
    /\ report.counts[1] = MAX_RETRIES + 1
    /\ threadByTool # <<>>
    /\ uploadedVisionFileIdByPath # <<>>

C28_WitnessHealthy ==
    /\ report.tool = "check_openai_connection"
    /\ report.status = "healthy"
    /\ report.counts[1] = 2

-----------------------------------------------------------------------------
(* SpecProcess: the life of the process, from the evaluation of the module  *)
(* to its exit.  The connection of the transport is taken to succeed.       *)

\* the signals the process receives in a behaviour of the model
MaxSignals == 3

\* ENV_VARS: the credential and the assistant id of each specialist tool
CredentialKey == "OPENAI_API_KEY"

EnvKeyOf ==
    [ux_consultant_review |-> "OPENAI_ASSISTANT_UX",
     personas_and_journeys |-> "OPENAI_ASSISTANT_PERSONAS",
     ui_critique |-> "OPENAI_ASSISTANT_UI",
     microcopy_rewrite |-> "OPENAI_ASSISTANT_MICROCOPY",
     a11y_review |-> "OPENAI_ASSISTANT_A11Y",
     super_agent_review |-> "OPENAI_ASSISTANT_SUPER"]

SpecialistTools == DOMAIN EnvKeyOf

RequiredBindings == {CredentialKey} \cup {EnvKeyOf[tool] : tool \in SpecialistTools}

\* mutant of MustEnv: an absent binding is read as an empty value
MustEnv_Lenient(bindings, name) == TRUE

\* mustEnv(name) returns: process.env[name] is a non-empty string
MustEnv(bindings, name) == name \in bindings

\* mutant of AlreadyShuttingDown: shutdown never returns early
AlreadyShuttingDown_Never(flag) == FALSE

\* shutdown: if (isShuttingDown) return
AlreadyShuttingDown(flag) == flag

ProcFrame == UNCHANGED <<cacheVars, retryVars, serverVars, concVars, msgVars, replyVars>>

ProcInit ==
    /\ ServerIdle
    /\ CacheIdle
    /\ RetryIdle
    /\ ConcIdle
    /\ MsgIdle
    /\ ReplyIdle
    /\ env \in SUBSET RequiredBindings
    /\ boot = "load"
    /\ isShuttingDown = FALSE
    /\ closing = "-"
    /\ proc = NoProc

\* the module is evaluated: config reads the credential with mustEnv; then
\* the tools and the signal handlers are registered
ModuleLoaded ==
    /\ boot = "load"
    /\ IF MustEnv(env, CredentialKey)
       THEN boot' = "registered" /\ proc' = proc
       ELSE boot' = "failed" /\ proc' = [proc EXCEPT !.exitCode = 1]
    /\ UNCHANGED <<env, isShuttingDown, closing>>
    /\ ProcFrame

\* await server.connect(transport) returned
TransportConnected ==
    /\ boot = "registered"
    /\ boot' = "ready"
    /\ proc' = [proc EXCEPT !.connected = TRUE]
    /\ UNCHANGED <<env, isShuttingDown, closing>>
    /\ ProcFrame

\* a specialist tool is invoked: the handler reads its assistant id with
\* getAssistantId, which throws when the binding is absent
ToolInvoked ==
    /\ boot = "ready"
    /\ \E tool \in SpecialistTools :
          proc' = [proc EXCEPT !.invoked = tool,
                               !.served = IF MustEnv(env, EnvKeyOf[tool])
                                          THEN "served" ELSE "missing_binding"]
    /\ UNCHANGED <<env, boot, isShuttingDown, closing>>
    /\ ProcFrame

\* SIGTERM or SIGINT is delivered: shutdown(signal) runs up to its await
SignalDelivered ==
    /\ boot \in {"registered", "ready"}
    /\ proc.signals < MaxSignals
    /\ \E signal \in {"SIGTERM", "SIGINT"} :
          IF AlreadyShuttingDown(isShuttingDown)
          THEN /\ proc' = [proc EXCEPT !.signals = @ + 1]
               /\ UNCHANGED <<isShuttingDown, closing>>
          ELSE /\ isShuttingDown' = TRUE
               /\ closing' = "pending"
               /\ proc' = [proc EXCEPT !.signals = @ + 1, !.closes = @ + 1]
    /\ UNCHANGED <<env, boot>>
    /\ ProcFrame

\* server.close() resolved: process.exit(0)
CloseResolved ==
    /\ closing = "pending"
    /\ boot \in {"registered", "ready"}
    /\ closing' = "-"
    /\ boot' = "exited"
    /\ proc' = [proc EXCEPT !.exitCode = 0]
    /\ UNCHANGED <<env, isShuttingDown>>
    /\ ProcFrame

\* server.close() rejected: the catch block logs the error, process.exit(0)
CloseRejected ==
    /\ closing = "pending"
    /\ boot \in {"registered", "ready"}
    /\ closing' = "-"
    /\ boot' = "exited"
    /\ proc' = [proc EXCEPT !.exitCode = 0, !.closeFailed = TRUE]
    /\ UNCHANGED <<env, isShuttingDown>>
    /\ ProcFrame

ProcNext ==
    \/ ModuleLoaded
    \/ TransportConnected
    \/ ToolInvoked
    \/ SignalDelivered
    \/ CloseResolved
    \/ CloseRejected

SpecProcess == ProcInit /\ [][ProcNext]_vars

\* the promise of server.close() is settled in the end, and the module
\* evaluation goes on
FairProcess ==
    /\ SpecProcess
    /\ WF_vars(CloseResolved \/ CloseRejected)
    /\ WF_vars(ModuleLoaded)

-----------------------------------------------------------------------------
(* Claims about the process, checked under SpecProcess and FairProcess      *)

\* a signal delivered during shutdown changes nothing but the count of
\* signals
SignalIgnored ==
    (isShuttingDown /\ proc'.signals # proc.signals) =>
        /\ UNCHANGED <<env, boot, isShuttingDown, closing>>
        /\ proc' = [proc EXCEPT !.signals = proc'.signals]

\* C29: whatever signals are delivered, server.close() is called at most
\* once, a signal delivered during shutdown has no effect, and once a signal
\* has started the shutdown the process exits in the end, with code 0, also
\* when server.close() fails.
C29_ShutdownOnce ==
    /\ [](proc.closes <= 1)
    /\ [](boot = "exited" => proc.exitCode = 0 /\ proc.closes = 1)
    /\ [][SignalIgnored]_vars
    /\ (isShuttingDown ~> boot = "exited")

\* the process exited after three signals and a failed close
C29_Witness ==
    /\ boot = "exited"
    /\ proc.signals = MaxSignals
    /\ proc.closeFailed
    /\ proc.closes = 1

\* C30 as stated: when a required binding is absent (the credential or the
\* assistant id of any of the six tools) the transport is never connected
\* and no tool invocation is accepted.
C30_Original ==
    RequiredBindings \ env # {} =>
        /\ ~proc.connected
        /\ proc.invoked = "-"

\* C30 (amended): when the credential is absent the process fails at
\* startup, never connects its transport and never accepts a tool
\* invocation; when the assistant id of a tool is absent the process starts,
\* and the invocations of that tool, and only those, fail.
C30_CredentialRequired ==
    /\ CredentialKey \notin env =>
          /\ boot \in {"load", "failed"}
          /\ ~proc.connected
          /\ proc.invoked = "-"
    /\ proc.invoked # "-" =>
          (proc.served = "served" <=> EnvKeyOf[proc.invoked] \in env)

\* the process failed at startup for the credential, every assistant id
\* being bound
C30_Witness ==
    /\ boot = "failed"
    /\ env = RequiredBindings \ {CredentialKey}
    /\ proc.exitCode = 1

\* with the credential only, the process connected and an invocation failed
\* for its assistant id
C30_Accepted ==
    /\ env = {CredentialKey}
    /\ proc.connected
    /\ proc.served = "missing_binding"

-----------------------------------------------------------------------------
(* SpecPair: two specialist tools invoked side by side, each with reset     *)
(* flags and files                                                          *)

\* the tool each of the two invocations is for
ToolOfSlot == <<"ux_consultant_review", "ui_critique">>

\* the first tool is invoked with a prompt, reset flags and files, while the
\* other tool may be in flight
PairInvoke ==
    \E reset_thread \in BOOLEAN, reset_files \in BOOLEAN, batch \in ConcFileBatches :
        InvokeOf(1, ToolOfSlot[1], reset_thread, reset_files, batch, <<>>)

\* the other tool is invoked with a prompt and files, while the first tool
\* may be in flight
PairInvokeOther ==
    \E batch \in ConcFileBatches :
        InvokeOf(2, ToolOfSlot[2], FALSE, FALSE, batch, <<>>)

PairNext ==
    \/ PairInvoke
    \/ PairInvokeOther
    \/ \E i \in Invocations : ConcCreateThreadOk(i)
    \/ \E i \in Invocations : ConcCreateVectorStoreOk(i)
    \/ \E i \in Invocations : ConcUploadOk(i)
    \/ \E i \in Invocations : ConcAttachOk(i)
    \/ \E i \in Invocations : ConcPostMessageOk(i)
    \/ \E i \in Invocations : ConcCreateRunOk(i)
    \/ \E i \in Invocations : ConcCallFails(i)

SpecPair == ConcInit /\ [][PairNext]_vars

\* the tools other than the one of invocation i
OtherTools(i) == Tools \ {ToolOfSlot[i]}

\* a step of invocation i leaves the thread entry and the vector store entry
\* of every other tool as they are
OtherEntriesKept ==
    \A i \in Invocations :
        inv'[i] # inv[i] =>
            \A other \in OtherTools(i) :
                /\ MapHas(threadByTool', other) <=> MapHas(threadByTool, other)
                /\ StoreOf(threadByTool', other) = StoreOf(threadByTool, other)
                /\ MapHas(vectorStoreByTool', other) <=> MapHas(vectorStoreByTool, other)
                /\ StoreOf(vectorStoreByTool', other) = StoreOf(vectorStoreByTool, other)

\* no invocation in flight holds the thread or the vector store of another
\* tool
OtherEntriesUnused ==
    \A i \in InFlight :
        \A other \in OtherTools(i) :
            /\ inv[i].tool = ToolOfSlot[i]
            /\ inv[i].threadId # 0 => inv[i].threadId # StoreOf(threadByTool, other)
            /\ inv[i].vectorStoreId # 0 =>
                  inv[i].vectorStoreId # StoreOf(vectorStoreByTool, other)
            /\ \A j \in 1..Len(inv[i].runStores) :
                  inv[i].runStores[j] # StoreOf(vectorStoreByTool, other)

\* C31: an invocation of a tool, whatever its reset flags, files and outcome,
\* never changes, removes or uses the thread entry or the vector store entry
\* of another tool.
C31_ToolsIndependent == []OtherEntriesUnused /\ [][OtherEntriesKept]_vars

\* the first tool, invoked with both reset flags and files while both tools
\* had a thread and a vector store, has requested its run
C31_Witness ==
    /\ inv[1].pc = "create_run"
    /\ inv[1].reset_thread /\ inv[1].reset_files
    /\ inv[1].prevThread # 0 /\ inv[1].prevStore # 0
    /\ inv[1].runStores # <<>>
    /\ MapHas(threadByTool, ToolOfSlot[2])
    /\ MapHas(vectorStoreByTool, ToolOfSlot[2])

-----------------------------------------------------------------------------
(* SpecPools: one tool invoked with files and image files that name the     *)
(* same path, image files of several extensions, and reset-all              *)

PathUpperPng == <<"j", ".", "P", "N", "G">>
PathOutsidePng == <<".", ".", "/", "o", ".", "p", "n", "g">>
PathDotPng == <<".", "p", "n", "g">>

PoolFileBatches == {<<>>, <<PathPng>>}
PoolImageBatches ==
    {<<>>, <<PathPng>>, <<PathUpperPng>>, <<PathA>>, <<PathDotPng>>, <<PathOutsidePng>>}

\* a specialist tool is invoked with a prompt, files and image files
PoolsInvoke ==
    \E tool \in FileTools, batch \in PoolFileBatches, images \in PoolImageBatches :
        InvokeOf(1, tool, FALSE, FALSE, batch, images)

PoolsNext ==
    \/ PoolsInvoke
    \/ ConcCreateThreadOk(1)
    \/ ConcCreateVectorStoreOk(1)
    \/ ConcUploadOk(1)
    \/ ConcAttachOk(1)
    \/ ConcVisionUploadOk(1)
    \/ ConcPostMessageOk(1)
    \/ ConcCreateRunOk(1)
    \/ ConcCallFails(1)
    \/ ConcResetAll

SpecPools == ConcInit /\ [][PoolsNext]_vars

-----------------------------------------------------------------------------
(* Claims about the two upload pools, checked under SpecPools               *)

\* the upload that returned this file id, for this path and purpose
UploadedFor(id, absolutePath, purpose) ==
    [id |-> id, path |-> absolutePath, purpose |-> purpose] \in uploadedAs

\* C32: every id of the document pool was returned by an upload of its path
\* with purpose "assistants", every id of the vision pool by an upload of its
\* path with purpose "vision"; the file an invocation attaches to its vector
\* store comes from an "assistants" upload and the image it posts from a
\* "vision" upload, so a path given both as file and as image file is
\* uploaded once per purpose and the two ids differ.
C32_PoolsDisjoint ==
    /\ \A j \in 1..Len(uploadedFileIdByPath) :
          UploadedFor(uploadedFileIdByPath[j].v, uploadedFileIdByPath[j].k, "assistants")
    /\ \A j \in 1..Len(uploadedVisionFileIdByPath) :
          UploadedFor(uploadedVisionFileIdByPath[j].v, uploadedVisionFileIdByPath[j].k,
                      "vision")
    /\ \A i \in InFlight :
          /\ inv[i].fileId # 0 =>
                UploadedFor(inv[i].fileId, PathResolve(inv[i].files[1]), "assistants")
          /\ inv[i].imageFileId # 0 =>
                UploadedFor(inv[i].imageFileId, PathResolve(inv[i].image_files[1]), "vision")
          /\ inv[i].fileId # 0 => inv[i].fileId # inv[i].imageFileId

\* one path is in both pools, under two ids, and an invocation given it both
\* as file and as image file has posted its message
C32_Witness ==
    /\ UploadLookup(uploadedFileIdByPath, PathResolve(PathPng)) # 0
    /\ UploadLookup(uploadedVisionFileIdByPath, PathResolve(PathPng)) # 0
    /\ inv[1].pc = "create_run"
    /\ inv[1].files = <<PathPng>> /\ inv[1].image_files = <<PathPng>>
    /\ inv[1].fileId # 0 /\ inv[1].imageFileId # 0

\* the path is absolute, inside the working directory by the test of
\* validateFilePath, and ends in an image extension in any letter case
AcceptableImagePath(absolutePath) ==
    /\ absolutePath # <<>> /\ Head(absolutePath) = "/"
    /\ StartsWith(absolutePath, workingDirectory)
    /\ \E ext \in VISION_IMAGE_EXTENSIONS :
          /\ Len(absolutePath) > Len(ext) + 1
          /\ absolutePath[Len(absolutePath) - Len(ext)] # "/"
          /\ ToLowerCase(SubSeq(absolutePath, Len(absolutePath) - Len(ext) + 1,
                                Len(absolutePath))) = ext

\* C38: every key of the vision registry is an absolute path that passed
\* validateFilePath and has an image extension, compared without case; an
\* upload with purpose "vision" is requested, or was answered, only for such
\* a path.
C38_VisionKeysValid ==
    /\ \A j \in 1..Len(uploadedVisionFileIdByPath) :
          AcceptableImagePath(uploadedVisionFileIdByPath[j].k)
    /\ \A i \in InFlight :
          inv[i].pc = "vision_upload" =>
              AcceptableImagePath(PathResolve(inv[i].image_files[1]))
    /\ \A u \in uploadedAs : u.purpose = "vision" => AcceptableImagePath(u.path)

\* an image with an upper-case extension is in the vision registry
C38_Witness ==
    /\ UploadLookup(uploadedVisionFileIdByPath, PathResolve(PathUpperPng)) # 0
    /\ UploadLookup(uploadedVisionFileIdByPath, PathResolve(PathPng)) # 0

\* an invocation ended on the validation of an image file without extension
C38_Rejected ==
    /\ inv[1].pc = "done"
    /\ inv[1].result = "validation_error"
    /\ uploadedVisionFileIdByPath = <<>>
    /\ threadByTool # <<>>

-----------------------------------------------------------------------------
(* SpecPredicate: one call withRetry(fn, {maxRetries, isRetryable}) whose   *)
(* caller supplies the predicate                                            *)

\* the predicates a caller supplies: one accepts every error, one accepts
\* none, one accepts the plain Error only
CustomPredicates == {"every", "none", "plain"}

CustomIsRetryable(predicate, error) ==
    CASE predicate = "every" -> TRUE
      [] predicate = "none" -> FALSE
      [] predicate = "plain" -> error = PlainError

\* mutant of IsRetryable: the default classifier is always the one applied
IsRetryable_Default(options, error) == defaultIsRetryable(error)

\* the destructured option: isRetryable = defaultIsRetryable unless given
IsRetryable(options, error) ==
    IF options.isRetryable = "default" THEN defaultIsRetryable(error)
    ELSE CustomIsRetryable(options.isRetryable, error)

PredicateOptions ==
    {[initialDelayMs |-> 100, maxDelayMs |-> 30000, backoffMultiplier |-> 2,
      isRetryable |-> p] : p \in CustomPredicates \cup {"default"}}

PredInit ==
    /\ rMaxRetries \in 0..MaxRetriesOpt
    /\ rpc = "call"
    /\ attempt = 0
    /\ outcomes = <<>>
    /\ sleeps = 0
    /\ rResult = NoResult
    /\ rOptions \in PredicateOptions
    /\ lastDelay = NoDelay
    /\ CacheIdle
    /\ ServerIdle
    /\ AuxIdle

\* fn() rejects and the catch block rethrows
PredFnThrowsFinal ==
    /\ rpc = "call"
    /\ \E error \in AnyErrors :
        /\ (attempt >= rMaxRetries \/ ~IsRetryable(rOptions, error))
        /\ outcomes' = Append(outcomes, Failure(error))
        /\ rResult' = Thrown(error)
    /\ rpc' = "thrown"
    /\ UNCHANGED <<rMaxRetries, attempt, sleeps, rOptions, lastDelay, cacheVars, auxVars, serverVars>>

\* fn() rejects and the catch block goes on to await sleep(delay)
PredFnThrowsRetryable ==
    /\ rpc = "call"
    /\ \E error \in AnyErrors :
        /\ ~(attempt >= rMaxRetries \/ ~IsRetryable(rOptions, error))
        /\ outcomes' = Append(outcomes, Failure(error))
    /\ \E random \in 0..(RandomSteps - 1) :
        lastDelay' = [n |-> attempt, random |-> random,
                      delay |-> calculateDelay(attempt, rOptions.initialDelayMs,
                                               rOptions.maxDelayMs,
                                               rOptions.backoffMultiplier, random)]
    /\ rpc' = "sleep"
    /\ UNCHANGED <<rMaxRetries, attempt, sleeps, rResult, rOptions, cacheVars, auxVars, serverVars>>

PredNext ==
    RetryFnReturns \/ PredFnThrowsFinal \/ PredFnThrowsRetryable \/ RetrySleepDone

SpecPredicate == PredInit /\ [][PredNext]_vars

-----------------------------------------------------------------------------
(* Claim about the caller's predicate, checked under SpecPredicate          *)

\* C33: when the caller supplies isRetryable, a failure the predicate accepts
\* is followed by a sleep and another attempt as long as fewer than
\* maxRetries retries were made, whatever the default classifier says of it,
\* and a failure the predicate rejects is the last attempt and is thrown to
\* the caller, HTTP 429, 500 and 503 included.
C33_CustomPredicateDecides ==
    rOptions.isRetryable \in CustomPredicates =>
        \A j \in 1..Len(outcomes) :
            ~outcomes[j].ok =>
                IF CustomIsRetryable(rOptions.isRetryable, outcomes[j].err)
                       /\ j <= rMaxRetries
                THEN \/ j < Len(outcomes)
                     \/ j = Len(outcomes) /\ rpc = "sleep"
                     \/ j = Len(outcomes) /\ rpc = "call" /\ attempt = j
                ELSE /\ j = Len(outcomes)
                     /\ rpc = "thrown"
                     /\ rResult = outcomes[j]
                     /\ sleeps = j - 1

\* a plain Error, which the default classifier rejects, was retried and the
\* second attempt succeeded
C33_Witness ==
    /\ rOptions.isRetryable = "plain"
    /\ Len(outcomes) = 2
    /\ outcomes[1] = Failure(PlainError)
    /\ ~defaultIsRetryable(PlainError)
    /\ rpc = "returned"

\* an HTTP 429 was thrown at the first attempt with three retries allowed
C33_Rejected ==
    /\ rOptions.isRetryable = "none"
    /\ rMaxRetries = 3
    /\ outcomes = <<Failure(HttpError(TOO_MANY_REQUESTS))>>
    /\ rpc = "thrown"
    /\ sleeps = 0

-----------------------------------------------------------------------------
(* Claim about the sleeps of withRetry, checked under SpecRetry             *)

\* a step that changes the number of sleeps is the end of one sleep, which
\* follows a failed attempt and is followed by the next attempt
SleepsBetweenAttempts ==
    sleeps' # sleeps =>
        /\ rpc = "sleep" /\ rpc' = "call"
        /\ sleeps' = sleeps + 1
        /\ ~Last(outcomes).ok
        /\ Len(outcomes) = sleeps + 1

\* the sleeps awaited so far, given the attempts made
SleepsCounted ==
    /\ rpc = "call" => sleeps = Len(outcomes)
    /\ rpc = "sleep" => sleeps = Len(outcomes) - 1 /\ Len(outcomes) <= rMaxRetries
    /\ rpc \in {"returned", "thrown"} => sleeps = Len(outcomes) - 1

\* C40: withRetry sleeps once between two consecutive attempts and at no
\* other time: not before the first attempt, not after a success, not after
\* a failure that is rethrown, not after the last permitted attempt; a call
\* that ends after a attempts has slept a - 1 times.
C40_SleepsBetweenAttempts == []SleepsCounted /\ [][SleepsBetweenAttempts]_vars

\* every permitted attempt was made and failed: four attempts, three sleeps
C40_Witness ==
    /\ rpc = "thrown"
    /\ rMaxRetries = 3
    /\ Len(outcomes) = 4
    /\ sleeps = 3
    /\ defaultIsRetryable(Last(outcomes).err)

-----------------------------------------------------------------------------
(* Claim about the order of the document pipeline, checked under SpecFiles  *)

\* the vector store is known before any upload, no attach request exists
\* while an upload of the batch is outstanding, and attach requests exist
\* only for a batch whose every path was accepted and every file has an id
PipelineOrdered ==
    /\ pc = "create_vector_store" => tasks = <<>> /\ vectorStoreId = 0
    /\ pc \in {"uploads", "attaches"} => vectorStoreId # 0 /\ Len(tasks) = Len(files)
    /\ pc = "uploads" =>
          /\ \A j \in DOMAIN tasks : tasks[j].at = "none"
          /\ \E j \in DOMAIN tasks : tasks[j].up \in {"reading", "uploading"}
    /\ pc = "attaches" =>
          /\ \A j \in DOMAIN tasks : tasks[j].up \in {"cached", "uploaded"} /\ tasks[j].id # 0
          /\ \A j \in DOMAIN files : ValidPath(files[j])
    /\ pc \notin {"uploads", "attaches"} => tasks = <<>>

\* the upload map starts the upload of every uncached file in one step, and
\* a batch that fails in validation or in an upload ends the invocation
\* without an attach request
PipelineSteps ==
    /\ (tasks = <<>> /\ pc' = "uploads") =>
          \A j \in DOMAIN tasks' : tasks'[j].up \in {"cached", "reading"}
    /\ (pc \in {"create_thread", "create_vector_store", "uploads"} /\ pc' = "done") =>
          /\ \A j \in DOMAIN tasks : tasks[j].at = "none"
          /\ tasks' = <<>>
    /\ (pc # "attaches" /\ pc' = "attaches") =>
          \A j \in DOMAIN tasks' : tasks'[j].at = "attaching"

\* C34: in the document pipeline the vector store is resolved or created
\* first, then the uncached files of the batch are uploaded concurrently, and
\* no attach request is issued before every upload has succeeded; when a
\* path validation or an upload fails, the invocation issues no attach
\* request at all.
C34_UploadsBeforeAttaches == []PipelineOrdered /\ [][PipelineSteps]_vars

\* the attach requests of a batch of two, both uploaded by this invocation
C34_Witness ==
    /\ pc = "attaches"
    /\ Len(tasks) = 2
    /\ \A j \in DOMAIN tasks : tasks[j].up = "uploaded" /\ tasks[j].at = "attaching"

\* an upload failed while the other upload of the batch was in flight
C34_Failed ==
    /\ pc = "done"
    /\ outcome.kind = RemoteCallError(HttpError(NOT_FOUND)).kind
    /\ orphans # {}
    /\ vectorStoreByTool # <<>>

-----------------------------------------------------------------------------
(* Claim about the attach requests of an invocation, checked under SpecTools *)

\* the positions of the handler after ensureFilesInVectorStore has returned
AfterPipeline == {"vision_upload", "post_message", "create_run"}

\* an invocation given files is past the document pipeline only with a file
\* id and the vector store it attached the file to, and its run names that
\* vector store
PipelineDone ==
    \A i \in InFlight :
        (inv[i].files # <<>> /\ inv[i].pc \in AfterPipeline) =>
            /\ inv[i].fileId # 0
            /\ inv[i].vectorStoreId # 0
            /\ inv[i].pc = "create_run" => inv[i].runStores = <<inv[i].vectorStoreId>>
            /\ inv[i].reset_files => inv[i].vectorStoreId # inv[i].prevStore

\* an invocation given files leaves the document pipeline by the answer to
\* its attach request, cached file or not; the vector store of an invocation
\* with reset_files is created by the invocation, and a file in the upload
\* cache goes from there to the attach request, not to an upload
AttachesEachFile ==
    \A i \in Invocations :
        /\ (inv'[i].files # <<>> /\ inv'[i].pc \in AfterPipeline
                /\ inv[i].pc \notin AfterPipeline) =>
              /\ inv[i].pc = "attach"
              /\ inv'[i].files = inv[i].files
              /\ inv'[i].fileId = inv[i].fileId
              /\ inv'[i].vectorStoreId = inv[i].vectorStoreId
        /\ (Starts(i) /\ inv'[i].reset_files /\ inv'[i].files # <<>>) =>
              inv'[i].pc \in {"create_thread", "create_vector_store"}
        /\ (inv[i].pc = "create_vector_store" /\ inv'[i].pc \notin {"create_vector_store", "done"}
                /\ UploadLookup(uploadedFileIdByPath, PathResolve(inv[i].files[1])) # 0) =>
              /\ inv'[i].pc = "attach"
              /\ inv'[i].fileId =
                    UploadLookup(uploadedFileIdByPath, PathResolve(inv[i].files[1]))
              /\ inv'[i].vectorStoreId \in made'[inv[i].tool].stores
              /\ ~inv'[i].uploaded
              /\ uploadedFileIdByPath' = uploadedFileIdByPath
              /\ uploadedAs' = uploadedAs

\* C39: an invocation given files that gets as far as its run has issued an
\* attach request, to the vector store its run names, for the file listed,
\* also when the file was in the upload cache and no upload was made; with
\* reset_files the vector store is a new one, so that a file uploaded before
\* is attached to the new vector store without a new upload.
C39_AttachesEveryFile == []PipelineDone /\ [][AttachesEachFile]_vars

\* the run of an invocation with reset_files names a new vector store, to
\* which the file was attached from the upload cache
C39_Witness ==
    \E i \in RunRequested :
        /\ inv[i].reset_files /\ inv[i].prevStore # 0
        /\ inv[i].files = <<PathA>>
        /\ ~inv[i].uploaded
        /\ inv[i].fileId = UploadLookup(uploadedFileIdByPath, PathResolve(PathA))
        /\ inv[i].runStores = <<inv[i].vectorStoreId>>

-----------------------------------------------------------------------------
(* SpecMixed: invocations of two tools that overlap, with reset flags and   *)
(* files, and reset-all at any moment                                       *)

\* the first tool is invoked with both reset flags or none, and files
MixedInvoke ==
    \E reset \in BOOLEAN, batch \in ConcFileBatches :
        InvokeOf(1, ToolOfSlot[1], reset, reset, batch, <<>>)

\* the second tool is invoked without reset flags, with the same file
MixedInvokeOther == InvokeOf(2, ToolOfSlot[2], FALSE, FALSE, <<PathA>>, <<>>)

MixedNext ==
    \/ MixedInvoke
    \/ MixedInvokeOther
    \/ \E i \in Invocations :
          \/ ConcCreateThreadOk(i)
          \/ ConcCreateVectorStoreOk(i)
          \/ ConcUploadOk(i)
          \/ ConcAttachOk(i)
          \/ ConcPostMessageOk(i)
          \/ ConcCreateRunOk(i)
          \/ ConcCallFails(i)
    \/ ConcResetAll

SpecMixed == ConcInit /\ [][MixedNext]_vars

-----------------------------------------------------------------------------
(* Claim about the registries under interleaving, checked under SpecMixed   *)

\* C36: whatever the interleaving of invocations, reset flags and utility
\* tools, every entry of threadByTool for a tool holds an id that POST
\* /threads returned to an invocation of that tool, every entry of
\* vectorStoreByTool an id that POST /vector_stores returned to an invocation
\* of that tool, and every entry of uploadedFileIdByPath for a path an id
\* that an upload of that path returned.
C36_RegistriesSound ==
    /\ \A j \in 1..Len(threadByTool) :
          /\ threadByTool[j].k \in Tools
          /\ threadByTool[j].v \in made[threadByTool[j].k].threads
    /\ \A j \in 1..Len(vectorStoreByTool) :
          /\ vectorStoreByTool[j].k \in Tools
          /\ vectorStoreByTool[j].v \in made[vectorStoreByTool[j].k].stores
    /\ \A j \in 1..Len(uploadedFileIdByPath) :
          \E u \in uploadedAs :
              u.id = uploadedFileIdByPath[j].v /\ u.path = uploadedFileIdByPath[j].k

\* both tools have a thread and a vector store, a file is cached, and the
\* invocation of the first tool that created its thread after a reset-all
\* overlaps an invocation of the second
C36_Witness ==
    /\ Len(threadByTool) = 2 /\ Len(vectorStoreByTool) = 2
    /\ uploadedFileIdByPath # <<>>
    /\ InFlight = Invocations
    /\ inv[1].crossed \/ inv[2].crossed

-----------------------------------------------------------------------------
(* SpecBinding: invocations, one at a time, of two tools in a process whose *)
(* environment may lack the assistant id of either                          *)

\* the environments of this specification: the credential, and the
\* assistant ids of any of the two tools
BindingEnvironments ==
    {{CredentialKey} \cup b :
        b \in SUBSET {EnvKeyOf[ToolOfSlot[1]], EnvKeyOf[ToolOfSlot[2]]}}

BindingInit ==
    /\ ServerIdle
    /\ CacheIdle
    /\ RetryIdle
    /\ ConcIdle
    /\ MsgIdle
    /\ ReplyIdle
    /\ env \in BindingEnvironments
    /\ boot = "ready"
    /\ isShuttingDown = FALSE
    /\ closing = "-"
    /\ proc = NoProc

\* mutant of BindingMissing: the assistant id is read after the thread is
\* resolved
BindingMissing_Proceeds(i, tool, reset_thread, reset_files) ==
    InvokeOf(i, tool, reset_thread, reset_files, <<>>, <<>>)

\* the handler of a specialist tool when getAssistantId(envKey) throws: the
\* statements after it are not reached
BindingMissing(i, tool, reset_thread, reset_files) ==
    /\ inv[i].pc \in {"idle", "done"}
    /\ inv' = [inv EXCEPT ![i] = Ended([NoInvocation EXCEPT !.tool = tool],
                                       "missing_binding")]
    /\ UNCHANGED <<threadByTool, vectorStoreByTool, uploadedFileIdByPath,
                   uploadedVisionFileIdByPath, made, health, uploadedAs>>
    /\ report' = NoReport
    /\ ConcFrame

\* a specialist tool is invoked: getAssistantId, then the rest of the handler
BindingInvoke ==
    \E slot \in {1, 2}, reset_thread \in BOOLEAN, reset_files \in BOOLEAN,
       batch \in ConcFileBatches :
        IF MustEnv(env, EnvKeyOf[ToolOfSlot[slot]])
        THEN InvokeOf(1, ToolOfSlot[slot], reset_thread, reset_files, batch, <<>>)
        ELSE BindingMissing(1, ToolOfSlot[slot], reset_thread, reset_files)

BindingNext ==
    \/ BindingInvoke
    \/ ConcCreateThreadOk(1)
    \/ ConcCreateVectorStoreOk(1)
    \/ ConcUploadOk(1)
    \/ ConcAttachOk(1)
    \/ ConcPostMessageOk(1)
    \/ ConcCreateRunOk(1)
    \/ ConcCallFails(1)

SpecBinding == BindingInit /\ [][BindingNext]_vars

-----------------------------------------------------------------------------
(* Claim about a missing assistant id, checked under SpecBinding            *)

\* an invocation of a tool whose assistant id is absent ends in the step
\* that starts it, with the four registries as they were
MissingBindingFailsFirst ==
    \A i \in Invocations :
        /\ (inv[i].pc \in {"idle", "done"} /\ inv'[i] # inv[i]
                /\ ~MustEnv(env, EnvKeyOf[inv'[i].tool])) =>
              /\ inv'[i].pc = "done"
              /\ inv'[i].result = "missing_binding"
              /\ threadByTool' = threadByTool
              /\ vectorStoreByTool' = vectorStoreByTool
              /\ uploadedFileIdByPath' = uploadedFileIdByPath
              /\ uploadedVisionFileIdByPath' = uploadedVisionFileIdByPath
        /\ (inv'[i].result = "missing_binding" /\ inv'[i] # inv[i]) =>
              inv[i].pc \in {"idle", "done"}

\* no invocation of a tool whose assistant id is absent awaits a remote call
NoCallWithoutBinding ==
    \A i \in InFlight : MustEnv(env, EnvKeyOf[inv[i].tool])

\* C37: when the assistant id of the invoked tool is absent, the invocation
\* fails before the reset flags are applied and before any remote call: the
\* four registries are as they were before the invocation.
C37_MissingBindingFailsFirst ==
    []NoCallWithoutBinding /\ [][MissingBindingFailsFirst]_vars

\* the tool without assistant id was invoked while the registries held the
\* thread, vector store and file of the other tool
C37_Witness ==
    /\ inv[1].result = "missing_binding"
    /\ inv[1].tool = ToolOfSlot[2]
    /\ MapHas(threadByTool, ToolOfSlot[1])
    /\ MapHas(vectorStoreByTool, ToolOfSlot[1])
    /\ uploadedFileIdByPath # <<>>

-----------------------------------------------------------------------------
(* FairSpec: Spec in which every remote call of the invocation returns,     *)
(* with a response or an error, and every poll timer fires                  *)

CallReturns ==
    \/ HttpFail
    \/ CreateThreadOk
    \/ PostMessageOk
    \/ CreateRunOk
    \/ PollSleep
    \/ FetchStatusOk
    \/ ListMessagesOk

FairSpec == Spec /\ WF_vars(CallReturns)

-----------------------------------------------------------------------------
(* Claim about termination, checked under FairSpec                          *)

\* the remote calls the handler of a prompt-only invocation makes, and the
\* poll sleep; there is no request that cancels a run
HandlerSteps ==
    {"create_thread", "post_message", "create_run", "poll_sleep", "fetch_status",
     "list_messages"}

\* each remote call is at its (httpAttempt + 1)-th attempt, of MAX_RETRIES + 1
\* at most; the loop has made no more sleeps and status fetches than
\* ceil(pollTimeoutMs / pollIntervalMs); a finished invocation has a result
\* or an error, and one that timed out made no remote call after the status
\* fetch (or run creation) that left the loop
BoundedWork ==
    /\ httpAttempt + 1 <= MAX_RETRIES + 1
    /\ Cardinality(Positions("poll_sleep")) <= Budget
    /\ Cardinality(Positions("fetch_status")) <= Cardinality(Positions("poll_sleep"))
    /\ \A j \in 1..Len(log) : log[j].ev \in HandlerSteps
    /\ pc = "done" => outcome # NoOutcome
    /\ outcome.kind = "timeout" =>
          /\ pc = "done"
          /\ Last(log).ev \in {"fetch_status", "create_run"}
          /\ Last(log).ok
          /\ Cardinality(Positions("fetch_status")) = Budget

\* C35: provided every remote call returns, an invocation terminates with a
\* result or an error: each remote call is attempted at most maxRetries + 1
\* times, the polling loop makes at most ceil(pollTimeoutMs / pollIntervalMs)
\* iterations, and the poll timeout ends the invocation with no further
\* request, none that cancels the run.
C35_Terminates ==
    /\ []BoundedWork
    /\ (pc \notin {"idle", "done"}) ~> (pc = "done" /\ outcome # NoOutcome)

\* the invocation timed out after the whole budget of status fetches, the
\* last of which was retried to the last attempt
C35_Witness ==
    /\ pc = "done"
    /\ outcome.kind = "timeout"
    /\ pollTimeoutMs > 2 * POLL_INTERVAL_MS
    /\ Cardinality(Positions("fetch_status")) = Budget
    /\ Budget = MaxPollBudget

\* a remote call is at its last permitted attempt
C35_LastAttempt ==
    /\ pc = "fetch_status"
    /\ httpAttempt = MAX_RETRIES

====
